---- MODULE Spec2Model ----
(***************************************************************************)
(* The alphavintage client library: the time-series utilities             *)
(* (src/timeseries.go: date-range filtering, last-N filtering, sorting,    *)
(* daily / intraday summaries), the three HTTP clients (src/client.go,     *)
(* src/ai.go), the image counter of the report builder (src/report.go)     *)
(* and the chart generators (src/chart.go).                                *)
(*                                                                         *)
(* Go strings are sequences of one-character strings, compared byte-wise   *)
(* as Go compares them.  float64 values are exact rationals [n, d] (d > 0),*)
(* with d = 0 standing for the IEEE results of a division by zero.         *)
(* A map is a function; the unspecified iteration order of `range m` is an *)
(* input of every operation that ranges over a map.                        *)
(***************************************************************************)
EXTENDS Integers, Sequences, FiniteSets, TLC

VARIABLES
    daily,         \* the caller's *TimeSeriesDailyResponse
    intraday,      \* the caller's *TimeSeriesIntradayResponse
    op,            \* the call in progress or just made ("init": none)
    args,          \* its arguments
    ret,           \* its return values
    call,          \* progress of a call that talks HTTP
    imageCounter,  \* var imageCounter int64 (src/report.go)
    builders       \* the report builders and the image names each has drawn

vars == <<daily, intraday, op, args, ret, call, imageCounter, builders>>

----------------------------------------------------------------------------
(* Bounds of the model *)

\* largest number of entries of an input series
MaxLen == 3
\* largest `days` argument tried by FilterDailyLastNDays (smallest is -1)
MaxDays == 4
\* number of report builders running concurrently
NumBuilders == 2
\* number of addChartImage calls followed, over all builders
MaxImages == 4
\* most requests one call is followed for
MaxRequests == 6

----------------------------------------------------------------------------
(* Go strings *)

\* the characters used, in ascending byte order
Alphabet == <<" ", "-", ".", "0", "1", "2", "3", "4", "5", "6", "7", "8", "9", ":", "x">>

Ord(c) == CHOOSE i \in 1..Len(Alphabet) : Alphabet[i] = c

Digits == {"0", "1", "2", "3", "4", "5", "6", "7", "8", "9"}

DigitVal(c) == Ord(c) - Ord("0")

\* a < b on Go strings
RECURSIVE LexLess(_, _)
LexLess(a, b) ==
    IF b = <<>> THEN FALSE
    ELSE IF a = <<>> THEN TRUE
    ELSE IF a[1] = b[1] THEN LexLess(Tail(a), Tail(b))
    ELSE Ord(a[1]) < Ord(b[1])

\* a > b on Go strings
LexGreater(a, b) == LexLess(b, a)

----------------------------------------------------------------------------
(* float64 as exact rationals *)

Abs(x) == IF x < 0 THEN -x ELSE x

RECURSIVE Gcd(_, _)
Gcd(a, b) == IF b = 0 THEN a ELSE Gcd(b, a % b)

\* the rational n/d in lowest terms, d > 0
Rat(n, d) ==
    LET g == Gcd(Abs(n), Abs(d))
        s == IF d < 0 THEN -1 ELSE 1
    IN  [n |-> s * (n \div g), d |-> s * (d \div g)]

FZero == [n |-> 0, d |-> 1]
FNaN == [n |-> 0, d |-> 0]
FInf(sign) == [n |-> sign, d |-> 0]

IsFinite(x) == x.d # 0

FromInt(i) == [n |-> i, d |-> 1]

\* a < b / a > b on finite float64 values
FLess(a, b) == a.n * b.d < b.n * a.d
FGreater(a, b) == FLess(b, a)

FSub(a, b) == Rat(a.n * b.d - b.n * a.d, a.d * b.d)

Sign(x) == IF x < 0 THEN -1 ELSE IF x > 0 THEN 1 ELSE 0

\* a / b; a zero divisor gives NaN (0/0) or a signed infinity
FDiv(a, b) ==
    IF b.n = 0
    THEN IF a.n = 0 THEN FNaN ELSE FInf(Sign(a.n))
    ELSE Rat(a.n * b.d, a.d * b.n)

\* a * b; NaN and infinities propagate
FMul(a, b) ==
    IF a.d = 0 \/ b.d = 0
    THEN IF a.n * b.n = 0 THEN FNaN ELSE FInf(Sign(a.n * b.n))
    ELSE Rat(a.n * b.n, a.d * b.d)

\* Go's integer division truncates toward zero
TruncDiv(a, b) ==
    IF (a >= 0) = (b > 0) THEN Abs(a) \div Abs(b) ELSE -(Abs(a) \div Abs(b))

----------------------------------------------------------------------------
(* fmt.Sscanf(s, "%f") / fmt.Sscanf(s, "%d") on the strings of Alphabet *)

RECURSIVE SkipSpace(_)
SkipSpace(s) ==
    IF s # <<>> /\ s[1] = " " THEN SkipSpace(Tail(s)) ELSE s

\* the longest prefix of s made of digits
RECURSIVE DigitPrefix(_)
DigitPrefix(s) ==
    IF s # <<>> /\ s[1] \in Digits
    THEN <<s[1]>> \o DigitPrefix(Tail(s))
    ELSE <<>>

RECURSIVE DigitsValue(_, _)
DigitsValue(ds, acc) ==
    IF ds = <<>> THEN acc ELSE DigitsValue(Tail(ds), 10 * acc + DigitVal(ds[1]))

RECURSIVE Pow10(_)
Pow10(k) == IF k = 0 THEN 1 ELSE 10 * Pow10(k - 1)

Drop(s, k) == SubSeq(s, k + 1, Len(s))

\* scan of one float token: [sign] digits [. digits]; the value stays 0
\* and an error is returned when the token holds no digit
parseFloat(s) ==
    LET t0 == SkipSpace(s)
        neg == t0 # <<>> /\ t0[1] = "-"
        t1 == IF neg THEN Tail(t0) ELSE t0
        ip == DigitPrefix(t1)
        t2 == Drop(t1, Len(ip))
        dot == t2 # <<>> /\ t2[1] = "."
        fp == IF dot THEN DigitPrefix(Tail(t2)) ELSE <<>>
        ok == Len(ip) + Len(fp) > 0
        mag == Rat(DigitsValue(ip, 0) * Pow10(Len(fp)) + DigitsValue(fp, 0), Pow10(Len(fp)))
    IN  IF ok
        THEN [f |-> IF neg THEN Rat(-mag.n, mag.d) ELSE mag, err |-> FALSE]
        ELSE [f |-> FZero, err |-> TRUE]

\* scan of one decimal integer: [sign] digits
parseInt(s) ==
    LET t0 == SkipSpace(s)
        neg == t0 # <<>> /\ t0[1] = "-"
        t1 == IF neg THEN Tail(t0) ELSE t0
        ip == DigitPrefix(t1)
    IN  IF ip # <<>>
        THEN [i |-> IF neg THEN -DigitsValue(ip, 0) ELSE DigitsValue(ip, 0), err |-> FALSE]
        ELSE [i |-> 0, err |-> TRUE]

----------------------------------------------------------------------------
(* Response types (src/types.go) *)

NoErr == "nil"

\* a Go map: keys are DOMAIN m
Put(m, k, v) == [x \in DOMAIN m \cup {k} |-> IF x = k THEN v ELSE m[x]]

EmptyMap == <<>>

\* every order in which `range m` may enumerate the keys of m
RECURSIVE Orders(_)
Orders(S) ==
    IF S = {} THEN {<<>>}
    ELSE UNION {{<<k>> \o o : o \in Orders(S \ {k})} : k \in S}

\* TimeSeriesMetaData / IntradayMetaData: the fields the utilities read
ZeroMeta == [Symbol |-> "", Interval |-> ""]

\* A Go map is a reference: tsRef names the map object a response points to.
\* NoMap is the nil map, InputMap the map the caller's response was decoded
\* into, MadeMap a map allocated with make() during the call in progress.
NoMap == "nil"
InputMap == "input"
MadeMap == "made"

\* a nil *TimeSeriesDailyResponse / *TimeSeriesIntradayResponse
NilResponse ==
    [isNil |-> TRUE, MetaData |-> ZeroMeta, TimeSeries |-> EmptyMap, tsNil |-> TRUE,
     tsRef |-> NoMap]

\* &Response{MetaData: meta, TimeSeries: make(map...)} holding the entries ts
Response(meta, ts) ==
    [isNil |-> FALSE, MetaData |-> meta, TimeSeries |-> ts, tsNil |-> FALSE,
     tsRef |-> MadeMap]

\* what the caller's response holds once a call has written `result`: a write
\* through a reference to the caller's own map is a write to the caller's map
MapAfter(input, result) ==
    IF ~input.isNil /\ ~input.tsNil /\ ~result.isNil /\ result.tsRef = input.tsRef
    THEN [input EXCEPT !.TimeSeries = result.TimeSeries]
    ELSE input

\* DailyDataPoint / IntradayDataPoint
DataPoint(o, h, l, c, v) == [Open |-> o, High |-> h, Low |-> l, Close |-> c, Volume |-> v]

----------------------------------------------------------------------------
(* GetSortedDates *)

\* variant of Swap: dates[i] is overwritten before it is copied to dates[j]
Swap_Overwrite(a, i, j) == [a EXCEPT ![i] = a[j]]

\* dates[i], dates[j] = dates[j], dates[i]
Swap(a, i, j) == [a EXCEPT ![i] = a[j], ![j] = a[i]]

\* the exchange sort of lines 304-310, from loop position (i, j), 1-based
RECURSIVE SortDatesFrom(_, _, _)
SortDatesFrom(dates, i, j) ==
    IF i > Len(dates) - 1 THEN dates
    ELSE IF j > Len(dates) THEN SortDatesFrom(dates, i + 1, i + 2)
    ELSE SortDatesFrom(IF LexGreater(dates[i], dates[j]) THEN Swap(dates, i, j) ELSE dates,
                       i, j + 1)

\* variant of GetSortedDates: the keys are returned as enumerated, unsorted
GetSortedDates_Unsorted(data, order) ==
    IF data.isNil
    THEN [nilSlice |-> TRUE, dates |-> <<>>]
    ELSE [nilSlice |-> FALSE, dates |-> order]

\* order: the enumeration order of data.TimeSeries
GetSortedDates(data, order) ==
    IF data.isNil
    THEN [nilSlice |-> TRUE, dates |-> <<>>]
    ELSE [nilSlice |-> FALSE, dates |-> SortDatesFrom(order, 1, 2)]

\* variant of GetMostRecentDate: the first of the sorted dates is returned
GetMostRecentDate_First(data, order) ==
    IF data.isNil \/ Cardinality(DOMAIN data.TimeSeries) = 0 THEN <<>>
    ELSE GetSortedDates(data, order).dates[1]

\* GetMostRecentDate: "" without data, else dates[len(dates)-1]
GetMostRecentDate(data, order) ==
    IF data.isNil \/ Cardinality(DOMAIN data.TimeSeries) = 0 THEN <<>>
    ELSE LET dates == GetSortedDates(data, order).dates
         IN  dates[Len(dates)]

\* GetOldestDate: "" without data, else dates[0]
GetOldestDate(data, order) ==
    IF data.isNil \/ Cardinality(DOMAIN data.TimeSeries) = 0 THEN <<>>
    ELSE GetSortedDates(data, order).dates[1]

----------------------------------------------------------------------------
(* FilterDailyByDateRange *)

\* variants of InDateRange: the start bound excluded / the end bound excluded
InDateRange_StartExclusive(date, startDate, endDate) ==
    /\ ~(startDate # <<>> /\ ~LexGreater(date, startDate))
    /\ ~(endDate # <<>> /\ LexGreater(date, endDate))

InDateRange_EndExclusive(date, startDate, endDate) ==
    /\ ~(startDate # <<>> /\ LexLess(date, startDate))
    /\ ~(endDate # <<>> /\ ~LexLess(date, endDate))

\* the two `continue` tests of the loop body: TRUE when the entry is kept
InDateRange(date, startDate, endDate) ==
    /\ ~(startDate # <<>> /\ LexLess(date, startDate))
    /\ ~(endDate # <<>> /\ LexGreater(date, endDate))

RECURSIVE FilterRangeLoop(_, _, _, _, _)
FilterRangeLoop(ts, order, startDate, endDate, filtered) ==
    IF order = <<>> THEN filtered
    ELSE LET date == Head(order)
         IN  FilterRangeLoop(ts, Tail(order), startDate, endDate,
                 IF InDateRange(date, startDate, endDate)
                 THEN Put(filtered, date, ts[date])
                 ELSE filtered)

\* variant of FilterDailyByDateRange: a nil series map is treated as a nil input
FilterDailyByDateRange_NilSeriesIsNil(data, startDate, endDate, order) ==
    IF data.isNil \/ data.tsNil THEN NilResponse
    ELSE Response(data.MetaData,
                  FilterRangeLoop(data.TimeSeries, order, startDate, endDate, EmptyMap))

FilterDailyByDateRange(data, startDate, endDate, order) ==
    IF data.isNil THEN NilResponse
    ELSE Response(data.MetaData,
                  FilterRangeLoop(data.TimeSeries, order, startDate, endDate, EmptyMap))

----------------------------------------------------------------------------
(* FilterDailyLastNDays *)

\* variant of RecentDates: the first `days` dates, dates[:days]
RecentDates_Oldest(dates, days) ==
    LET d == IF days > Len(dates) THEN Len(dates) ELSE days
    IN  SubSeq(dates, 1, d)

\* variant of RecentDates: one date fewer, dates[len(dates)-days+1:]
RecentDates_OneFewer(dates, days) ==
    LET d == IF days > Len(dates) THEN Len(dates) ELSE days
    IN  SubSeq(dates, Len(dates) - d + 2, Len(dates))

\* lines 273-276: clamp days, then dates[len(dates)-days:]
RecentDates(dates, days) ==
    LET d == IF days > Len(dates) THEN Len(dates) ELSE days
    IN  SubSeq(dates, Len(dates) - d + 1, Len(dates))

RECURSIVE CopyDatesLoop(_, _, _)
CopyDatesLoop(ts, recentDates, filtered) ==
    IF recentDates = <<>> THEN filtered
    ELSE LET date == Head(recentDates)
         IN  CopyDatesLoop(ts, Tail(recentDates),
                 IF date \in DOMAIN ts THEN Put(filtered, date, ts[date]) ELSE filtered)

\* variant of FilterDailyLastNDays: only a negative day count is rejected
FilterDailyLastNDays_ZeroAllowed(data, days, order) ==
    IF data.isNil \/ days < 0 THEN NilResponse
    ELSE LET dates == GetSortedDates(data, order).dates
         IN  IF Len(dates) = 0 THEN NilResponse
             ELSE Response(data.MetaData,
                           CopyDatesLoop(data.TimeSeries, RecentDates(dates, days), EmptyMap))

FilterDailyLastNDays(data, days, order) ==
    IF data.isNil \/ days <= 0 THEN NilResponse
    ELSE LET dates == GetSortedDates(data, order).dates
         IN  IF Len(dates) = 0 THEN NilResponse
             ELSE Response(data.MetaData,
                           CopyDatesLoop(data.TimeSeries, RecentDates(dates, days), EmptyMap))

----------------------------------------------------------------------------
(* GetDailyRangeSummary *)

ZeroDailySummary ==
    [Symbol |-> "", StartDate |-> <<>>, EndDate |-> <<>>, TradingDays |-> 0,
     PeriodOpen |-> FZero, PeriodHigh |-> FZero, PeriodLow |-> FZero, PeriodClose |-> FZero,
     TotalVolume |-> 0, AvgVolume |-> 0, PriceChange |-> FZero, PriceChangePct |-> FZero,
     HighDate |-> <<>>, LowDate |-> <<>>]

\* variant of NewDailySummary: the period ends where it starts
NewDailySummary_EndIsStart(data, dates) ==
    [ZeroDailySummary EXCEPT !.Symbol = data.MetaData.Symbol,
                             !.StartDate = dates[1],
                             !.EndDate = dates[1],
                             !.TradingDays = Len(dates)]

\* the struct literal of lines 344-349
NewDailySummary(data, dates) ==
    [ZeroDailySummary EXCEPT !.Symbol = data.MetaData.Symbol,
                             !.StartDate = dates[1],
                             !.EndDate = dates[Len(dates)],
                             !.TradingDays = Len(dates)]

\* variant of SeedFirstDay: the low and its date are not seeded
SeedFirstDay_LowUnseeded(summary, first, date, open, high, low) ==
    IF first
    THEN [summary EXCEPT !.PeriodOpen = open, !.PeriodHigh = high, !.HighDate = date]
    ELSE summary

\* lines 360-367: the first day seeds open, high, low and both dates
SeedFirstDay(summary, first, date, open, high, low) ==
    IF first
    THEN [summary EXCEPT !.PeriodOpen = open, !.PeriodHigh = high, !.PeriodLow = low,
                         !.HighDate = date, !.LowDate = date]
    ELSE summary

\* variant of UpdateHigh: a tie moves HighDate to the later day
UpdateHigh_TiesKeepLast(summary, date, high) ==
    IF ~FLess(high, summary.PeriodHigh)
    THEN [summary EXCEPT !.PeriodHigh = high, !.HighDate = date]
    ELSE summary

\* lines 369-372
UpdateHigh(summary, date, high) ==
    IF FGreater(high, summary.PeriodHigh)
    THEN [summary EXCEPT !.PeriodHigh = high, !.HighDate = date]
    ELSE summary

\* variant of UpdateLow: compares against the running high
UpdateLow_AgainstHigh(summary, date, low) ==
    IF FLess(low, summary.PeriodHigh)
    THEN [summary EXCEPT !.PeriodLow = low, !.LowDate = date]
    ELSE summary

\* lines 373-376
UpdateLow(summary, date, low) ==
    IF FLess(low, summary.PeriodLow)
    THEN [summary EXCEPT !.PeriodLow = low, !.LowDate = date]
    ELSE summary

\* lines 378-379
UpdateCloseVolume(summary, close, vol) ==
    [summary EXCEPT !.PeriodClose = close, !.TotalVolume = @ + vol]

\* one iteration of the loop of lines 352-380
DailyStep(summary, first, date, point) ==
    LET open == parseFloat(point.Open).f
        high == parseFloat(point.High).f
        low == parseFloat(point.Low).f
        close == parseFloat(point.Close).f
        vol == parseInt(point.Volume).i
    IN  UpdateCloseVolume(
            UpdateLow(
                UpdateHigh(SeedFirstDay(summary, first, date, open, high, low), date, high),
                date, low),
            close, vol)

RECURSIVE DailyLoop(_, _, _, _, _)
DailyLoop(ts, dates, i, first, summary) ==
    IF i > Len(dates) THEN summary
    ELSE DailyLoop(ts, dates, i + 1, FALSE, DailyStep(summary, first, dates[i], ts[dates[i]]))

\* variant of WithAvgVolume: flooring division
WithAvgVolume_Floor(summary) ==
    IF summary.TradingDays > 0
    THEN [summary EXCEPT !.AvgVolume = summary.TotalVolume \div summary.TradingDays]
    ELSE summary

\* lines 382-384
WithAvgVolume(summary) ==
    IF summary.TradingDays > 0
    THEN [summary EXCEPT !.AvgVolume = TruncDiv(summary.TotalVolume, summary.TradingDays)]
    ELSE summary

\* variant of WithPriceChange: the division is not guarded
WithPriceChange_Unguarded(summary) ==
    LET change == FSub(summary.PeriodClose, summary.PeriodOpen)
        s == [summary EXCEPT !.PriceChange = change]
    IN  [s EXCEPT !.PriceChangePct = FMul(FDiv(change, summary.PeriodOpen), FromInt(100))]

\* lines 386-389
WithPriceChange(summary) ==
    LET change == FSub(summary.PeriodClose, summary.PeriodOpen)
        s == [summary EXCEPT !.PriceChange = change]
    IN  IF summary.PeriodOpen # FZero
        THEN [s EXCEPT !.PriceChangePct = FMul(FDiv(change, summary.PeriodOpen), FromInt(100))]
        ELSE s

\* a (summary, error) result; isNil says the summary pointer is nil
SummaryResult(isNil, summary, err) ==
    [isNil |-> isNil, summary |-> summary, err |-> err, panic |-> FALSE]

\* the guard of line 335
DailyNoData(data) == data.isNil \/ Cardinality(DOMAIN data.TimeSeries) = 0

\* variant of GetDailyRangeSummary: a record with a field that does not parse
\* fails the whole call
GetDailyRangeSummary_StrictParse(data, order) ==
    IF DailyNoData(data)
    THEN SummaryResult(TRUE, ZeroDailySummary, "no data")
    ELSE LET dates == GetSortedDates(data, order).dates
         IN  IF \E k \in DOMAIN data.TimeSeries :
                    \/ parseFloat(data.TimeSeries[k].Open).err
                    \/ parseFloat(data.TimeSeries[k].High).err
                    \/ parseFloat(data.TimeSeries[k].Low).err
                    \/ parseFloat(data.TimeSeries[k].Close).err
                    \/ parseInt(data.TimeSeries[k].Volume).err
             THEN SummaryResult(TRUE, ZeroDailySummary, "parse error")
             ELSE SummaryResult(FALSE,
                      WithPriceChange(WithAvgVolume(
                          DailyLoop(data.TimeSeries, dates, 1, TRUE,
                                    NewDailySummary(data, dates)))),
                      NoErr)

GetDailyRangeSummary(data, order) ==
    IF DailyNoData(data)
    THEN SummaryResult(TRUE, ZeroDailySummary, "no data")
    ELSE LET dates == GetSortedDates(data, order).dates
         IN  IF Len(dates) = 0
             THEN SummaryResult(TRUE, ZeroDailySummary, "no dates")
             ELSE SummaryResult(FALSE,
                      WithPriceChange(WithAvgVolume(
                          DailyLoop(data.TimeSeries, dates, 1, TRUE,
                                    NewDailySummary(data, dates)))),
                      NoErr)

----------------------------------------------------------------------------
(* GetIntradaySummary *)

ZeroIntradaySummary ==
    [Symbol |-> "", Date |-> <<>>, Open |-> FZero, High |-> FZero, Low |-> FZero,
     Close |-> FZero, TotalVol |-> 0, DataPoints |-> 0, Interval |-> ""]

\* lines 162-166
NewIntradaySummary(data) ==
    [ZeroIntradaySummary EXCEPT !.Symbol = data.MetaData.Symbol,
                                !.Interval = data.MetaData.Interval,
                                !.DataPoints = Cardinality(DOMAIN data.TimeSeries)]

\* lines 173-176: the (time, point) pairs in enumeration order
CollectPoints(ts, order) == [i \in 1..Len(order) |-> [time |-> order[i], point |-> ts[order[i]]]]

\* the exchange sort of lines 179-185, from loop position (i, j), 1-based
RECURSIVE SortPointsFrom(_, _, _)
SortPointsFrom(points, i, j) ==
    IF i > Len(points) - 1 THEN points
    ELSE IF j > Len(points) THEN SortPointsFrom(points, i + 1, i + 2)
    ELSE SortPointsFrom(IF LexGreater(points[i].time, points[j].time)
                        THEN Swap(points, i, j) ELSE points,
                        i, j + 1)

\* length of the date prefix taken by time[:10]
DatePrefixLen == 10

\* lines 200-214: one iteration of the summary loop
IntradayStep(summary, first, point) ==
    LET open == parseFloat(point.Open).f
        high == parseFloat(point.High).f
        low == parseFloat(point.Low).f
        close == parseFloat(point.Close).f
        vol == parseInt(point.Volume).i
        s1 == IF first
              THEN [summary EXCEPT !.Open = open, !.High = high, !.Low = low]
              ELSE summary
        s2 == IF FGreater(high, s1.High) THEN [s1 EXCEPT !.High = high] ELSE s1
        s3 == IF FLess(low, s2.Low) THEN [s2 EXCEPT !.Low = low] ELSE s2
    IN  [s3 EXCEPT !.Close = close, !.TotalVol = @ + vol]

RECURSIVE IntradayLoop(_, _, _, _)
IntradayLoop(points, i, first, summary) ==
    IF i > Len(points) THEN summary
    ELSE IntradayLoop(points, i + 1, FALSE, IntradayStep(summary, first, points[i].point))

\* the guard of line 158
IntradayNoData_NilOnly(data) == data.isNil

IntradayNoData(data) == data.isNil \/ Cardinality(DOMAIN data.TimeSeries) = 0

\* points[0].time[:10] panics (slice bounds out of range) on a shorter string
GetIntradaySummary(data, order) ==
    IF IntradayNoData(data)
    THEN SummaryResult(TRUE, ZeroIntradaySummary, "no data")
    ELSE LET points == SortPointsFrom(CollectPoints(data.TimeSeries, order), 1, 2)
             summary == NewIntradaySummary(data)
         IN  IF Len(points) > 0 /\ Len(points[1].time) < DatePrefixLen
             THEN [isNil |-> TRUE, summary |-> ZeroIntradaySummary, err |-> NoErr,
                   panic |-> TRUE]
             ELSE SummaryResult(FALSE,
                      IntradayLoop(points, 1, TRUE,
                          IF Len(points) > 0
                          THEN [summary EXCEPT !.Date = SubSeq(points[1].time, 1, DatePrefixLen)]
                          ELSE summary),
                      NoErr)

----------------------------------------------------------------------------
(* FilterIntradayByDate *)

\* the length of a YYYY-MM-DD date, the literal 10 of the key test
DateKeyLen == 10

\* variant of HasDatePrefix: one character fewer is compared
HasDatePrefix_NineChars(timestamp, date) ==
    /\ Len(timestamp) >= DateKeyLen
    /\ Len(date) >= DateKeyLen - 1
    /\ SubSeq(timestamp, 1, DateKeyLen - 1) = SubSeq(date, 1, DateKeyLen - 1)

\* variant of HasDatePrefix: a timestamp shorter than a date is kept
HasDatePrefix_KeepsShort(timestamp, date) ==
    \/ Len(timestamp) < DateKeyLen
    \/ SubSeq(timestamp, 1, DateKeyLen) = date

\* len(timestamp) >= 10 && timestamp[:10] == date
HasDatePrefix(timestamp, date) ==
    /\ Len(timestamp) >= DateKeyLen
    /\ SubSeq(timestamp, 1, DateKeyLen) = date

RECURSIVE FilterDateLoop(_, _, _, _)
FilterDateLoop(ts, order, date, filtered) ==
    IF order = <<>> THEN filtered
    ELSE LET timestamp == Head(order)
         IN  FilterDateLoop(ts, Tail(order), date,
                 IF HasDatePrefix(timestamp, date)
                 THEN Put(filtered, timestamp, ts[timestamp])
                 ELSE filtered)

\* variant of FilterIntradayByDate: the other timestamps are deleted from the
\* input's own map, which is returned
FilterIntradayByDate_InPlace(data, date, order) ==
    IF data.isNil THEN NilResponse
    ELSE [data EXCEPT !.TimeSeries = FilterDateLoop(data.TimeSeries, order, date, EmptyMap)]

FilterIntradayByDate(data, date, order) ==
    IF data.isNil THEN NilResponse
    ELSE Response(data.MetaData,
                  FilterDateLoop(data.TimeSeries, order, date, EmptyMap))

----------------------------------------------------------------------------
(* The inputs explored *)

D0102 == <<"2", "0", "2", "4", "-", "0", "1", "-", "0", "2">>
D0103 == <<"2", "0", "2", "4", "-", "0", "1", "-", "0", "3">>
D0110 == <<"2", "0", "2", "4", "-", "0", "1", "-", "1", "0">>
D0201 == <<"2", "0", "2", "4", "-", "0", "2", "-", "0", "1">>
Month01 == <<"2", "0", "2", "4", "-", "0", "1">>
T0930 == <<"2", "0", "2", "4", "-", "0", "6", "-", "1", "0", " ", "0", "9", ":", "3", "0", ":", "0", "0">>
T0935 == <<"2", "0", "2", "4", "-", "0", "6", "-", "1", "0", " ", "0", "9", ":", "3", "5", ":", "0", "0">>
T1130 == <<"2", "0", "2", "4", "-", "0", "6", "-", "1", "1", " ", "0", "9", ":", "3", "0", ":", "0", "0">>
TShort == <<"0", "9", ":", "3", "0">>

\* keys of the daily series: YYYY-MM-DD dates
DailyKeys == {D0102, D0103, D0110, D0201}

\* startDate / endDate arguments: empty, a month prefix (not a key), two dates
DateBounds == {<<>>, Month01, D0103, D0110}

Day0610 == <<"2", "0", "2", "4", "-", "0", "6", "-", "1", "0">>
Day0611 == <<"2", "0", "2", "4", "-", "0", "6", "-", "1", "1">>

\* date arguments of the intraday filter: two trading days, and a string
\* that is itself a key of the series but shorter than a date
IntradayDates == {Day0610, Day0611, TShort}

\* keys of the intraday series: timestamps, and one key shorter than a date
IntradayKeys == {T0930, T0935, T1130, TShort}

\* OHLCV records as the upstream API sends them (decimal strings): the two
\* days of the documented scenario, a day that ties their high and low and has
\* a negative volume, and a day with a zero open and fields that do not parse
DailyPoints ==
    {DataPoint(<<"1", "0", "0">>, <<"1", "0", "5">>, <<"9", "9">>, <<"1", "0", "4">>, <<"1", "0", "0", "0">>),
     DataPoint(<<"1", "0", "4">>, <<"1", "1", "0">>, <<"1", "0", "3">>, <<"1", "0", "8">>, <<"1", "5", "0", "0">>),
     DataPoint(<<"1", "0", "4", ".", "5">>, <<"1", "1", "0">>, <<"9", "9">>, <<"1", "0", "0">>, <<"-", "7">>),
     DataPoint(<<"0">>, <<>>, <<"-">>, <<"0", ".", "2", "5">>, <<"x">>)}

IntradayPoints ==
    {DataPoint(<<"5", "0">>, <<"5", "1">>, <<"4", "9">>, <<"5", "0", ".", "5">>, <<"1", "0", "0">>),
     DataPoint(<<"5", "0", ".", "5">>, <<"5", "2">>, <<"5", "0">>, <<"5", "1", ".", "5">>, <<"2", "0", "0">>),
     DataPoint(<<"5", "1", ".", "5">>, <<"5", "2">>, <<"4", "9">>, <<"5", "0">>, <<"2", "0", "1">>),
     DataPoint(<<"x">>, <<>>, <<"-">>, <<".">>, <<"x">>)}

DailyMeta == [Symbol |-> "IBM", Interval |-> ""]
IntradayMeta == [Symbol |-> "IBM", Interval |-> "5min"]

\* every map with at most MaxLen of the keys, valued in points
Series(keys, points) ==
    UNION {[ks -> points] : ks \in {k \in SUBSET keys : Cardinality(k) <= MaxLen}}

\* a nil response, a response with a nil map, and responses with a decoded map
Inputs(meta, keys, points) ==
    {NilResponse, [Response(meta, EmptyMap) EXCEPT !.tsNil = TRUE, !.tsRef = NoMap]}
        \cup {[Response(meta, ts) EXCEPT !.tsRef = InputMap] : ts \in Series(keys, points)}

NoArgs == [none |-> TRUE]

\* AnalysisSummary{}: five empty sections
EmptySummary ==
    [Executive |-> "", PriceAnalysis |-> "", Fundamentals |-> "", Risks |-> "", Outlook |-> ""]

\* no HTTP call in progress
NoCall == [stage |-> "none", sent |-> 0, failed |-> FALSE, section |-> 0,
           summary |-> EmptySummary]

Builders == 1..NumBuilders

\* every builder between two addChartImage calls, none made yet
IdleBuilders == [b \in Builders |-> [pc |-> "idle", names |-> <<>>]]

Init ==
    /\ \/ daily \in Inputs(DailyMeta, DailyKeys, DailyPoints) /\ intraday = NilResponse
       \/ daily = NilResponse /\ intraday \in Inputs(IntradayMeta, IntradayKeys, IntradayPoints)
    /\ op = "init"
    /\ args = NoArgs
    /\ ret = NoArgs
    /\ call = NoCall
    /\ imageCounter = 0
    /\ builders = IdleBuilders

----------------------------------------------------------------------------
(* One action per call, made when no call is in progress (the library is    *)
(* synchronous); Return hands control back to the caller.  The inputs are  *)
(* never written.                                                          *)

Idle == op = "init"

CallFilterDailyByDateRange ==
    /\ Idle
    /\ \E startDate \in DateBounds, endDate \in DateBounds,
       order \in Orders(DOMAIN daily.TimeSeries) :
        /\ op' = "FilterDailyByDateRange"
        /\ args' = [startDate |-> startDate, endDate |-> endDate]
        /\ ret' = FilterDailyByDateRange(daily, startDate, endDate, order)
        /\ daily' = MapAfter(daily, ret')
        /\ UNCHANGED intraday
        /\ UNCHANGED <<call, imageCounter, builders>>

CallFilterDailyLastNDays ==
    /\ Idle
    /\ \E days \in -1..MaxDays, order \in Orders(DOMAIN daily.TimeSeries) :
        /\ op' = "FilterDailyLastNDays"
        /\ args' = [days |-> days]
        /\ ret' = FilterDailyLastNDays(daily, days, order)
        /\ daily' = MapAfter(daily, ret')
        /\ UNCHANGED intraday
        /\ UNCHANGED <<call, imageCounter, builders>>

\* FilterDailyByDateRange from one of the keys of the series, without an end
\* bound, on the series FilterDailyLastNDays has just been called on
CallRangeFromKey ==
    /\ op = "FilterDailyLastNDays"
    /\ ~ret.isNil
    /\ \E startDate \in DOMAIN daily.TimeSeries, order \in Orders(DOMAIN daily.TimeSeries) :
        /\ op' = "RangeFromKey"
        /\ args' = [days |-> args.days, lastN |-> ret, startDate |-> startDate]
        /\ ret' = FilterDailyByDateRange(daily, startDate, <<>>, order)
        /\ daily' = MapAfter(daily, ret')
        /\ UNCHANGED intraday
        /\ UNCHANGED <<call, imageCounter, builders>>

CallGetSortedDates ==
    /\ Idle
    /\ \E order \in Orders(DOMAIN daily.TimeSeries) :
        /\ op' = "GetSortedDates"
        /\ args' = NoArgs
        /\ ret' = GetSortedDates(daily, order)
        /\ UNCHANGED <<daily, intraday>>
        /\ UNCHANGED <<call, imageCounter, builders>>

CallGetDailyRangeSummary ==
    /\ Idle
    /\ \E order \in Orders(DOMAIN daily.TimeSeries) :
        /\ op' = "GetDailyRangeSummary"
        /\ args' = NoArgs
        /\ ret' = GetDailyRangeSummary(daily, order)
        /\ UNCHANGED <<daily, intraday>>
        /\ UNCHANGED <<call, imageCounter, builders>>

CallGetOldestDate ==
    /\ Idle
    /\ \E order \in Orders(DOMAIN daily.TimeSeries) :
        /\ op' = "GetOldestDate"
        /\ args' = NoArgs
        /\ ret' = GetOldestDate(daily, order)
        /\ UNCHANGED <<daily, intraday>>
        /\ UNCHANGED <<call, imageCounter, builders>>

CallGetMostRecentDate ==
    /\ Idle
    /\ \E order \in Orders(DOMAIN daily.TimeSeries) :
        /\ op' = "GetMostRecentDate"
        /\ args' = NoArgs
        /\ ret' = GetMostRecentDate(daily, order)
        /\ UNCHANGED <<daily, intraday>>
        /\ UNCHANGED <<call, imageCounter, builders>>

\* the series restricted to the span a first summary reported ...
CallFilterOwnSpan ==
    /\ op = "GetDailyRangeSummary"
    /\ ret.err = NoErr
    /\ \E order \in Orders(DOMAIN daily.TimeSeries) :
        /\ op' = "FilterOwnSpan"
        /\ args' = [first |-> ret]
        /\ ret' = FilterDailyByDateRange(daily, ret.summary.StartDate,
                                         ret.summary.EndDate, order)
        /\ daily' = MapAfter(daily, ret')
        /\ UNCHANGED intraday
        /\ UNCHANGED <<call, imageCounter, builders>>

\* ... and the summary of that restriction
CallResummarizeOwnSpan ==
    /\ op = "FilterOwnSpan"
    /\ \E order \in Orders(DOMAIN ret.TimeSeries) :
        /\ op' = "ResummarizeOwnSpan"
        /\ args' = args
        /\ ret' = GetDailyRangeSummary(ret, order)
        /\ UNCHANGED <<daily, intraday>>
        /\ UNCHANGED <<call, imageCounter, builders>>

CallFilterIntradayByDate ==
    /\ Idle
    /\ \E date \in IntradayDates, order \in Orders(DOMAIN intraday.TimeSeries) :
        /\ op' = "FilterIntradayByDate"
        /\ args' = [date |-> date]
        /\ ret' = FilterIntradayByDate(intraday, date, order)
        /\ intraday' = MapAfter(intraday, ret')
        /\ UNCHANGED daily
        /\ UNCHANGED <<call, imageCounter, builders>>

\* GetIntradaySummary of what FilterIntradayByDate returned
CallSummarizeFilteredDay ==
    /\ op = "FilterIntradayByDate"
    /\ \E order \in Orders(DOMAIN ret.TimeSeries) :
        /\ op' = "SummarizeFilteredDay"
        /\ args' = args
        /\ ret' = GetIntradaySummary(ret, order)
        /\ UNCHANGED <<daily, intraday>>
        /\ UNCHANGED <<call, imageCounter, builders>>

CallGetIntradaySummary ==
    /\ Idle
    /\ \E order \in Orders(DOMAIN intraday.TimeSeries) :
        /\ op' = "GetIntradaySummary"
        /\ args' = NoArgs
        /\ ret' = GetIntradaySummary(intraday, order)
        /\ UNCHANGED <<daily, intraday>>
        /\ UNCHANGED <<call, imageCounter, builders>>

Return ==
    /\ ~Idle
    /\ op' = "init"
    /\ args' = NoArgs
    /\ ret' = NoArgs
    /\ UNCHANGED <<daily, intraday>>
    /\ UNCHANGED <<call, imageCounter, builders>>

Next ==
    \/ CallFilterDailyByDateRange
    \/ CallFilterDailyLastNDays
    \/ CallRangeFromKey
    \/ CallGetSortedDates
    \/ CallGetDailyRangeSummary
    \/ CallGetOldestDate
    \/ CallGetMostRecentDate
    \/ CallFilterOwnSpan
    \/ CallResummarizeOwnSpan
    \/ CallFilterIntradayByDate
    \/ CallSummarizeFilteredDay
    \/ CallGetIntradaySummary
    \/ Return

Spec == Init /\ [][Next]_vars

----------------------------------------------------------------------------
(* The HTTP clients: Client (src/client.go), FinancialDatasetsClient and    *)
(* AIClient (src/ai.go).  A reply is what resty hands back for one request: *)
(* a transport failure, or a status code and a body.  A body is described   *)
(* by what encoding/json makes of it.                                       *)

\* An error is represented by its kind, the fixed prefix of its text;
\* "json: cannot unmarshal" stands for an error of json.Unmarshal returned
\* as it is, "render error" for an error of graph.Render.

StatusOK == 200

\* a member of a JSON object that is decoded into a Go string field
Absent == [type |-> "absent", s |-> ""]
Str(s) == [type |-> "string", s |-> s]
Num == [type |-> "number", s |-> ""]

\* json.Unmarshal into a string field: a string is stored, a missing member
\* leaves the zero value, a number leaves the zero value and is an
\* UnmarshalTypeError reported once the whole object has been decoded
DecodeString(v) == IF v.type = "string" THEN v.s ELSE ""
TypeError(v) == v.type = "number"

NoBody == [json |-> "none"]
TransportFailure == [transportErr |-> TRUE, status |-> 0, body |-> NoBody]
Reply(status, body) == [transportErr |-> FALSE, status |-> status, body |-> body]

\* return nil, fmt.Errorf(kind + ": " + detail)
Failure(kind, detail) == [bodyNil |-> TRUE, body |-> NoBody, err |-> kind, detail |-> detail]
\* return body, nil
Success(body) == [bodyNil |-> FALSE, body |-> body, err |-> NoErr, detail |-> ""]

\* json.Unmarshal(body, &apiErr): fails on text that is not JSON and on JSON
\* that is not an object; on an object it fills the three string fields
UnmarshalAPIError(body) ==
    IF body.json # "object"
    THEN [err |-> TRUE, ErrorMessage |-> "", Note |-> "", Information |-> ""]
    ELSE [err |-> TypeError(body.ErrorMessage) \/ TypeError(body.Note)
                      \/ TypeError(body.Information),
          ErrorMessage |-> DecodeString(body.ErrorMessage),
          Note |-> DecodeString(body.Note),
          Information |-> DecodeString(body.Information)]

\* Client.doRequest, given the reply to its one GET
ClientDoRequest(reply) ==
    IF reply.transportErr THEN Failure("request failed", "")
    ELSE IF reply.status # StatusOK THEN Failure("unexpected status code", reply.status)
    ELSE LET apiErr == UnmarshalAPIError(reply.body)
         IN  IF ~apiErr.err /\ apiErr.ErrorMessage # ""
             THEN Failure("API error", apiErr.ErrorMessage)
             ELSE IF ~apiErr.err /\ apiErr.Note # ""
             THEN Failure("API rate limit", apiErr.Note)
             ELSE IF ~apiErr.err /\ apiErr.Information # ""
             THEN Failure("API info", apiErr.Information)
             ELSE Success(reply.body)

\* FinancialDatasetsClient.doRequest, given the reply to its one GET; the
\* error of decoding errResp is dropped and Message used as decoded
FDDoRequest(reply) ==
    IF reply.transportErr THEN Failure("request failed", "")
    ELSE IF reply.status # StatusOK
    THEN LET Message == IF reply.body.json = "object"
                        THEN DecodeString(reply.body.message) ELSE ""
         IN  IF Message # "" THEN Failure("API error", Message)
             ELSE Failure("API error", reply.status)
    ELSE Success(reply.body)

\* body, err := c.doRequest(...); if err != nil { return nil, err };
\* if err := json.Unmarshal(body, &result); err != nil { return nil, err };
\* return &result, nil
Getter(transport) ==
    IF transport.err # NoErr
    THEN [isNil |-> TRUE, err |-> transport.err, doRequest |-> transport]
    ELSE IF ~transport.body.decodes
    THEN [isNil |-> TRUE, err |-> "json: cannot unmarshal", doRequest |-> transport]
    ELSE [isNil |-> FALSE, err |-> NoErr, doRequest |-> transport]

\* variant of chat: the choices are looked at before the error object
chat_ChoicesFirst(reply) ==
    IF reply.transportErr THEN [content |-> "", err |-> "request failed"]
    ELSE IF reply.body.json # "object" THEN [content |-> "", err |-> "parse error"]
    ELSE IF reply.body.choices = 0 THEN [content |-> "", err |-> "no response from AI"]
    ELSE IF reply.body.hasError THEN [content |-> "", err |-> "API error"]
    ELSE [content |-> reply.body.content, err |-> NoErr]

\* AIClient.chat, given the reply to its one POST
chat(reply) ==
    IF reply.transportErr THEN [content |-> "", err |-> "request failed"]
    ELSE IF reply.body.json # "object" THEN [content |-> "", err |-> "parse error"]
    ELSE IF reply.body.hasError THEN [content |-> "", err |-> "API error"]
    ELSE IF reply.body.choices = 0 THEN [content |-> "", err |-> "no response from AI"]
    ELSE [content |-> reply.body.content, err |-> NoErr]

\* GenerateFullAnalysis: the sections in the order they are generated, and
\* the text a section gets when its generation returns an error
Sections == <<"Executive", "PriceAnalysis", "Fundamentals", "Risks", "Outlook">>

Placeholder ==
    [Executive |-> "Unable to generate executive summary.",
     PriceAnalysis |-> "Unable to analyze price trends.",
     Fundamentals |-> "Unable to analyze fundamentals.",
     Risks |-> "Unable to assess risks.",
     Outlook |-> "Unable to generate outlook."]

\* summary.X, err = ai.GenerateX(data); if err != nil { summary.X = "Unable ..." }
SectionText(section, result) ==
    IF result.err # NoErr THEN Placeholder[section] ELSE result.content

\* AnalyzePriceTrend: data == nil || len(data.TimeSeries) == 0
NoPriceData(data) == data.isNil \/ Cardinality(DOMAIN data.TimeSeries) = 0

\* return summary, nil
FullAnalysisResult(summary) == [isNil |-> FALSE, summary |-> summary, err |-> NoErr]

\* variant of AfterRequest: a failed request is sent again
AfterRequest_RetryOnError(err) == IF err # NoErr THEN "request" ELSE "done"

\* what a single-endpoint method does once doRequest / Post has returned:
\* it returns, with the error or with the decoded value
AfterRequest(err) == "done"

(* The replies explored *)

Statuses == {StatusOK, 429, 500}

FieldValues == {Absent, Str(""), Str("msg"), Num}

\* bodies for Client: text that is not JSON, a JSON array, and objects with
\* any combination of the three envelope members; decodes tells whether the
\* body unmarshals into the result type of the method
ClientBodies ==
    {[json |-> j, ErrorMessage |-> Absent, Note |-> Absent, Information |-> Absent,
      decodes |-> FALSE] : j \in {"invalid", "array"}}
        \cup {[json |-> "object", ErrorMessage |-> e, Note |-> n, Information |-> i,
               decodes |-> d] :
                  e \in FieldValues, n \in FieldValues, i \in FieldValues, d \in BOOLEAN}

FDBodies ==
    {[json |-> j, message |-> Absent, decodes |-> FALSE] : j \in {"invalid", "array"}}
        \cup {[json |-> "object", message |-> m, decodes |-> d] :
                  m \in FieldValues, d \in BOOLEAN}

\* bodies for AIClient: an object may carry an error member, and zero or one
\* choice
ChatBodies ==
    {[json |-> j, hasError |-> FALSE, choices |-> 0, content |-> ""] :
        j \in {"invalid", "array"}}
        \cup {[json |-> "object", hasError |-> e, choices |-> n,
               content |-> IF n = 0 THEN "" ELSE "analysis"] :
                  e \in BOOLEAN, n \in 0..1}

Replies(bodies) ==
    {TransportFailure} \cup {Reply(status, body) : status \in Statuses, body \in bodies}

ClientMethods ==
    {"GetMarketStatus", "GetTimeSeriesDaily", "GetTimeSeriesIntraday", "GetBalanceSheet",
     "GetCashFlow", "GetEarnings", "GetNewsSentiment"}

FDMethods ==
    {"GetIncomeStatements", "GetBalanceSheets", "GetCashFlowStatements", "GetCompanyFacts",
     "GetPriceSnapshot", "GetPrices", "GetInsiderTrades", "GetInstitutionalOwnership",
     "GetNews", "GetFinancialMetrics", "GetFinancialMetricsSnapshot"}

SingleEndpoint == ClientMethods \cup FDMethods \cup {"chat"}

\* daily data handed to the analysis and to the chart generators: nil, a nil
\* map, and maps with a date key, with a key that is no date, with both or
\* with neither
ChartInputs ==
    {NilResponse, [Response(DailyMeta, EmptyMap) EXCEPT !.tsNil = TRUE, !.tsRef = NoMap]}
        \cup {[Response(DailyMeta, [k \in ks |->
                   DataPoint(<<"1", "0", "0">>, <<"1", "0", "5">>, <<"9", "9">>,
                             <<"1", "0", "4">>, <<"1", "0", "0", "0">>)])
                EXCEPT !.tsRef = InputMap] : ks \in SUBSET {D0102, Month01}}

InitClients ==
    /\ daily \in ChartInputs
    /\ intraday = NilResponse
    /\ op = "init"
    /\ args = NoArgs
    /\ ret = NoArgs
    /\ call = NoCall
    /\ imageCounter = 0
    /\ builders = IdleBuilders

(* A call is started, performs its requests one at a time (each request is *)
(* a blocking resty call answered by the environment), and returns.        *)

\* a method of one of the clients is called
StartCall ==
    /\ Idle
    /\ \E m \in SingleEndpoint \cup {"GenerateFullAnalysis", "GetSingleDayData"} :
        /\ op' = m
        /\ call' = [NoCall EXCEPT !.stage = "request",
                                  !.section = IF m = "GenerateFullAnalysis" THEN 1 ELSE 0]
    /\ args' = NoArgs
    /\ ret' = NoArgs
    /\ UNCHANGED <<daily, intraday, imageCounter, builders>>

\* a method of Client: doRequest, then the decoding of the body
ClientRequest ==
    /\ op \in ClientMethods
    /\ call.stage = "request"
    /\ call.sent < MaxRequests
    /\ \E reply \in Replies(ClientBodies) :
        LET result == Getter(ClientDoRequest(reply))
        IN  /\ args' = [reply |-> reply]
            /\ ret' = result
            /\ call' = [call EXCEPT !.sent = @ + 1,
                                    !.failed = result.doRequest.err # NoErr
                                                   \/ ~reply.body.decodes,
                                    !.stage = AfterRequest(result.err)]
    /\ UNCHANGED <<op, daily, intraday, imageCounter, builders>>

\* a getter of FinancialDatasetsClient
FDRequest ==
    /\ op \in FDMethods
    /\ call.stage = "request"
    /\ call.sent < MaxRequests
    /\ \E reply \in Replies(FDBodies) :
        LET result == Getter(FDDoRequest(reply))
        IN  /\ args' = [reply |-> reply]
            /\ ret' = result
            /\ call' = [call EXCEPT !.sent = @ + 1,
                                    !.failed = result.doRequest.err # NoErr
                                                   \/ ~reply.body.decodes,
                                    !.stage = AfterRequest(result.err)]
    /\ UNCHANGED <<op, daily, intraday, imageCounter, builders>>

\* AIClient.chat on its own
ChatRequest ==
    /\ op = "chat"
    /\ call.stage = "request"
    /\ call.sent < MaxRequests
    /\ \E reply \in Replies(ChatBodies) :
        LET result == chat(reply)
        IN  /\ args' = [reply |-> reply]
            /\ ret' = result
            /\ call' = [call EXCEPT !.sent = @ + 1,
                                    !.failed = result.err # NoErr,
                                    !.stage = AfterRequest(result.err)]
    /\ UNCHANGED <<op, daily, intraday, imageCounter, builders>>

\* Client.GetTimeSeriesIntraday, given the reply to its GET.  wire is the
\* response the body decodes into when every Unmarshal succeeds; its map is
\* nil when the body has no "Time Series (<interval>)" member.
GetTimeSeriesIntraday(reply, wire) ==
    LET transport == ClientDoRequest(reply)
    IN  IF transport.err # NoErr THEN [data |-> NilResponse, err |-> transport.err]
        ELSE IF ~reply.body.decodes
        THEN [data |-> NilResponse, err |-> "json: cannot unmarshal"]
        ELSE [data |-> wire, err |-> NoErr]

\* variant of GetSingleDayData: the filtered series is returned as it is
GetSingleDayData_NoEmptyCheck(reply, wire, date, order) ==
    LET fetched == GetTimeSeriesIntraday(reply, wire)
    IN  IF fetched.err # NoErr THEN [data |-> NilResponse, err |-> fetched.err]
        ELSE [data |-> FilterIntradayByDate(fetched.data, date, order), err |-> NoErr]

\* Client.GetSingleDayData: fetch, filter, emptiness check
GetSingleDayData(reply, wire, date, order) ==
    LET fetched == GetTimeSeriesIntraday(reply, wire)
    IN  IF fetched.err # NoErr THEN [data |-> NilResponse, err |-> fetched.err]
        ELSE LET filtered == FilterIntradayByDate(fetched.data, date, order)
             IN  IF Cardinality(DOMAIN filtered.TimeSeries) = 0
                 THEN [data |-> NilResponse, err |-> "no data available"]
                 ELSE [data |-> filtered, err |-> NoErr]

\* GetSingleDayData: one request, answered with a transport failure or with
\* a status and a body; the body's series has up to MaxLen of the timestamps
SingleDayRequest ==
    /\ op = "GetSingleDayData"
    /\ call.stage = "request"
    /\ call.sent < MaxRequests
    /\ \E reply \in Replies({b \in ClientBodies :
                                b.Note = Absent /\ b.Information = Absent}),
          wire \in Inputs(IntradayMeta, IntradayKeys,
                          {DataPoint(<<"5", "0">>, <<"5", "1">>, <<"4", "9">>,
                                     <<"5", "0", ".", "5">>, <<"1", "0", "0">>)})
                       \ {NilResponse},
          date \in IntradayDates :
       \E order \in Orders(DOMAIN wire.TimeSeries) :
        LET result == GetSingleDayData(reply, wire, date, order)
        IN  /\ args' = [reply |-> reply, wire |-> wire, date |-> date]
            /\ ret' = result
            /\ call' = [call EXCEPT !.sent = @ + 1,
                                    !.failed = result.err # NoErr,
                                    !.stage = "done"]
    /\ UNCHANGED <<op, daily, intraday, imageCounter, builders>>

\* variant of FinishSection: the first section that fails ends the analysis
FinishSection_StopOnError(result, requests) ==
    LET section == Sections[call.section]
        summary == [call.summary EXCEPT ![section] = SectionText(section, result)]
        last == call.section = Len(Sections) \/ result.err # NoErr
    IN  /\ call' = [call EXCEPT !.summary = summary,
                                !.sent = @ + requests,
                                !.failed = @ \/ result.err # NoErr,
                                !.section = IF last THEN @ ELSE @ + 1,
                                !.stage = IF last THEN "done" ELSE "request"]
        /\ ret' = IF last THEN FullAnalysisResult(summary) ELSE ret
        /\ UNCHANGED <<op, args, daily, intraday, imageCounter, builders>>

\* GenerateFullAnalysis stores the text of the current section and goes on to
\* the next one, or returns after the last
FinishSection(result, requests) ==
    LET section == Sections[call.section]
        summary == [call.summary EXCEPT ![section] = SectionText(section, result)]
        last == call.section = Len(Sections)
    IN  /\ call' = [call EXCEPT !.summary = summary,
                                !.sent = @ + requests,
                                !.failed = @ \/ result.err # NoErr,
                                !.section = IF last THEN @ ELSE @ + 1,
                                !.stage = IF last THEN "done" ELSE "request"]
        /\ ret' = IF last THEN FullAnalysisResult(summary) ELSE ret
        /\ UNCHANGED <<op, args, daily, intraday, imageCounter, builders>>

\* a section whose generator formats a prompt and calls chat
SectionChat ==
    /\ op = "GenerateFullAnalysis"
    /\ call.stage = "request"
    /\ call.sent < MaxRequests
    /\ ~(Sections[call.section] = "PriceAnalysis" /\ NoPriceData(daily))
    /\ \E reply \in Replies(ChatBodies) : FinishSection(chat(reply), 1)

\* AnalyzePriceTrend without price data: an error and no request
SectionNoPriceData ==
    /\ op = "GenerateFullAnalysis"
    /\ call.stage = "request"
    /\ Sections[call.section] = "PriceAnalysis"
    /\ NoPriceData(daily)
    /\ FinishSection([content |-> "", err |-> "no price data"], 0)

ReturnCall ==
    /\ call.stage = "done"
    /\ op' = "init"
    /\ args' = NoArgs
    /\ ret' = NoArgs
    /\ call' = NoCall
    /\ UNCHANGED <<daily, intraday, imageCounter, builders>>

NextClients ==
    \/ StartCall
    \/ ClientRequest
    \/ FDRequest
    \/ ChatRequest
    \/ SectionChat
    \/ SectionNoPriceData
    \/ SingleDayRequest
    \/ ReturnCall

SpecClients == InitClients /\ [][NextClients]_vars

----------------------------------------------------------------------------
(* ReportBuilder.addChartImage (src/report.go): report builders run in     *)
(* their own goroutines, each on its own PDF, and share the package-level  *)
(* imageCounter.  A call is two steps: the atomic add that yields the      *)
(* image name, and the drawing on the builder's own PDF.                   *)

\* the name arguments the Add...Chart methods pass
ChartNames == {"price", "compare"}

\* variant of AtomicAddInt64: the counter is read, not added to
AtomicAddInt64_Load(counter, delta) == counter

\* atomic.AddInt64(&imageCounter, delta): the new value, stored and returned
\* in one indivisible step
AtomicAddInt64(counter, delta) == counter + delta

\* fmt.Sprintf("%s_%d", name, n)
UniqueName(name, n) == <<name, "_", n>>

RECURSIVE ImagesOf(_, _)
\* number of addChartImage calls the builders in S have made
ImagesOf(bs, S) ==
    IF S = {} THEN 0
    ELSE LET b == CHOOSE b \in S : TRUE
         IN  Len(bs[b].names) + ImagesOf(bs, S \ {b})

InitReport ==
    /\ daily = NilResponse
    /\ intraday = NilResponse
    /\ op = "init"
    /\ args = NoArgs
    /\ ret = NoArgs
    /\ call = NoCall
    /\ imageCounter = 0
    /\ builders = IdleBuilders

\* uniqueName := fmt.Sprintf("%s_%d", name, atomic.AddInt64(&imageCounter, 1))
NameImage(b) ==
    /\ builders[b].pc = "idle"
    /\ ImagesOf(builders, Builders) < MaxImages
    /\ \E name \in ChartNames :
        LET n == AtomicAddInt64(imageCounter, 1)
        IN  /\ imageCounter' = n
            /\ builders' = [builders EXCEPT ![b].pc = "draw",
                                            ![b].names = Append(@, UniqueName(name, n))]
    /\ UNCHANGED <<daily, intraday, op, args, ret, call>>

\* the image is registered and drawn on the builder's own PDF; the call returns
DrawImage(b) ==
    /\ builders[b].pc = "draw"
    /\ builders' = [builders EXCEPT ![b].pc = "idle"]
    /\ UNCHANGED <<daily, intraday, op, args, ret, call, imageCounter>>

NextReport ==
    \/ \E b \in Builders : NameImage(b)
    \/ \E b \in Builders : DrawImage(b)

SpecReport == InitReport /\ [][NextReport]_vars

----------------------------------------------------------------------------
(* The chart generators (src/chart.go).  A generator returns an error and   *)
(* may write PNG bytes to its output; the rendering itself is go-chart's,   *)
(* and its outcome is an input of the call.                                 *)

\* a return before graph.Render: nothing has been written to output
NotRendered(err) == [err |-> err, written |-> FALSE]

\* graph.Render(chart.PNG, output): an image is written, or rendering fails
\* before or after bytes have reached the output
RenderOutcomes ==
    {[err |-> NoErr, written |-> TRUE],
     [err |-> "render error", written |-> FALSE],
     [err |-> "render error", written |-> TRUE]}

\* time.Parse("2006-01-02", dateStr) succeeds: YYYY-MM-DD with a month of
\* 01..12 and a day of 01..31 (the length of the month is not modelled)
ParsesAsDate(s) ==
    /\ Len(s) = 10
    /\ \A i \in {1, 2, 3, 4, 6, 7, 9, 10} : s[i] \in Digits
    /\ s[5] = "-" /\ s[8] = "-"
    /\ 10 * DigitVal(s[6]) + DigitVal(s[7]) \in 1..12
    /\ 10 * DigitVal(s[9]) + DigitVal(s[10]) \in 1..31

\* extractDailyData: the keys that parse as dates, in the order ranged over
\* (one close and one volume is returned per such key)
RECURSIVE ExtractDailyData(_)
ExtractDailyData(order) ==
    IF order = <<>> THEN <<>>
    ELSE IF ParsesAsDate(Head(order))
         THEN <<Head(order)>> \o ExtractDailyData(Tail(order))
         ELSE ExtractDailyData(Tail(order))

GenerateDailyPriceChart(data, render) ==
    IF data.isNil \/ Cardinality(DOMAIN data.TimeSeries) = 0
    THEN NotRendered("no data to chart")
    ELSE render

GenerateCandlestickChart(data, render) ==
    IF data.isNil \/ Cardinality(DOMAIN data.TimeSeries) = 0
    THEN NotRendered("no data to chart")
    ELSE render

GenerateEarningsChart(data, render) ==
    IF data.isNil \/ Len(data.AnnualEarnings) = 0
    THEN NotRendered("no earnings data to chart")
    ELSE render

GenerateCashFlowChart(data, render) ==
    IF data.isNil \/ Len(data.AnnualReports) = 0
    THEN NotRendered("no cash flow data to chart")
    ELSE render

\* the loop over the datasets: a symbol gets a series when its dataset is not
\* nil, has entries, and at least one of its keys parses as a date
\* (symbols: the order the datasets are ranged over; orders: for each
\* symbol, the order its time series is ranged over)
RECURSIVE ComparisonSeries(_, _, _, _)
ComparisonSeries(datasets, symbols, orders, series) ==
    IF symbols = <<>> THEN series
    ELSE LET symbol == Head(symbols)
             data == datasets[symbol]
         IN  ComparisonSeries(datasets, Tail(symbols), orders,
                 IF data.isNil \/ Cardinality(DOMAIN data.TimeSeries) = 0 THEN series
                 ELSE IF Len(ExtractDailyData(orders[symbol])) > 0
                      THEN Append(series, symbol)
                      ELSE series)

\* variant of GenerateComparisonChart: the test for an empty series list is
\* missing
GenerateComparisonChart_NoSeriesCheck(datasets, symbols, orders, render) ==
    IF Cardinality(DOMAIN datasets) = 0 THEN NotRendered("no data to chart")
    ELSE render

GenerateComparisonChart(datasets, symbols, orders, render) ==
    IF Cardinality(DOMAIN datasets) = 0 THEN NotRendered("no data to chart")
    ELSE IF Len(ComparisonSeries(datasets, symbols, orders, <<>>)) = 0
    THEN NotRendered("no valid data to chart")
    ELSE render

(* The chart inputs explored (the daily data is ChartInputs) *)

\* *EarningsResponse / *CashFlowResponse: nil, or up to two annual records
NilReports == [isNil |-> TRUE, AnnualEarnings |-> <<>>, AnnualReports |-> <<>>]
Reports(n) ==
    [isNil |-> FALSE, AnnualEarnings |-> [i \in 1..n |-> "annual"],
     AnnualReports |-> [i \in 1..n |-> "annual"]]
ReportInputs == {NilReports} \cup {Reports(n) : n \in 0..2}

\* map[string]*TimeSeriesDailyResponse over up to two symbols
ChartSymbols == {"IBM", "AAPL"}
Datasets == UNION {[syms -> ChartInputs] : syms \in SUBSET ChartSymbols}

\* for each dataset, an order in which its time series may be ranged over
SeriesOrders(datasets) ==
    {o \in [DOMAIN datasets -> UNION {Orders(DOMAIN datasets[sym].TimeSeries) :
                                         sym \in DOMAIN datasets}] :
        \A sym \in DOMAIN datasets : o[sym] \in Orders(DOMAIN datasets[sym].TimeSeries)}

CallGenerateDailyPriceChart ==
    /\ Idle
    /\ \E render \in RenderOutcomes :
        /\ op' = "GenerateDailyPriceChart"
        /\ args' = [data |-> daily]
        /\ ret' = GenerateDailyPriceChart(daily, render)
    /\ UNCHANGED <<daily, intraday, call, imageCounter, builders>>

CallGenerateCandlestickChart ==
    /\ Idle
    /\ \E render \in RenderOutcomes :
        /\ op' = "GenerateCandlestickChart"
        /\ args' = [data |-> daily]
        /\ ret' = GenerateCandlestickChart(daily, render)
    /\ UNCHANGED <<daily, intraday, call, imageCounter, builders>>

CallGenerateEarningsChart ==
    /\ Idle
    /\ \E data \in ReportInputs, render \in RenderOutcomes :
        /\ op' = "GenerateEarningsChart"
        /\ args' = [data |-> data]
        /\ ret' = GenerateEarningsChart(data, render)
    /\ UNCHANGED <<daily, intraday, call, imageCounter, builders>>

CallGenerateCashFlowChart ==
    /\ Idle
    /\ \E data \in ReportInputs, render \in RenderOutcomes :
        /\ op' = "GenerateCashFlowChart"
        /\ args' = [data |-> data]
        /\ ret' = GenerateCashFlowChart(data, render)
    /\ UNCHANGED <<daily, intraday, call, imageCounter, builders>>

CallGenerateComparisonChart ==
    /\ Idle
    /\ \E datasets \in Datasets, render \in RenderOutcomes :
       \E symbols \in Orders(DOMAIN datasets), orders \in SeriesOrders(datasets) :
        /\ op' = "GenerateComparisonChart"
        /\ args' = [datasets |-> datasets]
        /\ ret' = GenerateComparisonChart(datasets, symbols, orders, render)
    /\ UNCHANGED <<daily, intraday, call, imageCounter, builders>>

NextCharts ==
    \/ CallGenerateDailyPriceChart
    \/ CallGenerateCandlestickChart
    \/ CallGenerateEarningsChart
    \/ CallGenerateCashFlowChart
    \/ CallGenerateComparisonChart
    \/ Return

SpecCharts == InitClients /\ [][NextCharts]_vars

----------------------------------------------------------------------------
(* Vocabulary of the properties *)

LexLeq(a, b) == a = b \/ LexLess(a, b)

Keys(data) == DOMAIN data.TimeSeries

NonEmpty(data) == ~data.isNil /\ Keys(data) # {}

MinKey(S) == CHOOSE k \in S : \A j \in S : LexLeq(k, j)
MaxKey(S) == CHOOSE k \in S : \A j \in S : LexLeq(j, k)

OpenOf(p) == parseFloat(p.Open).f
HighOf(p) == parseFloat(p.High).f
LowOf(p) == parseFloat(p.Low).f
CloseOf(p) == parseFloat(p.Close).f
VolumeOf(p) == parseInt(p.Volume).i

FLeq(a, b) == a.n * b.d <= b.n * a.d

RECURSIVE SumVolumes(_, _)
SumVolumes(ts, S) ==
    IF S = {} THEN 0
    ELSE LET k == CHOOSE k \in S : TRUE
         IN  VolumeOf(ts[k]) + SumVolumes(ts, S \ {k})

Min(a, b) == IF a < b THEN a ELSE b

\* the call returned a summary and no error
Summarized(name) == op = name /\ ~ret.panic /\ ~ret.isNil /\ ret.err = NoErr

----------------------------------------------------------------------------
(* Properties *)

\* C1: on a non-nil daily series, FilterDailyByDateRange keeps exactly the keys
\* k with (start empty or start <= k) and (end empty or k <= end), lexically,
\* and every kept key maps to the data point it had in the input.
C1_FilterDailyByDateRangeExact ==
    (op = "FilterDailyByDateRange" /\ ~daily.isNil) =>
        /\ ~ret.isNil
        /\ Keys(ret) = {k \in Keys(daily) :
                           /\ args.startDate = <<>> \/ LexLeq(args.startDate, k)
                           /\ args.endDate = <<>> \/ LexLeq(k, args.endDate)}
        /\ \A k \in Keys(ret) : ret.TimeSeries[k] = daily.TimeSeries[k]

\* a range with both bounds given, a key equal to the start bound kept, and
\* keys on both sides dropped or kept
C1_Witness ==
    /\ op = "FilterDailyByDateRange"
    /\ ~daily.isNil
    /\ args.startDate # <<>> /\ args.endDate # <<>>
    /\ args.startDate \in Keys(ret)
    /\ Keys(ret) # Keys(daily)
    /\ Cardinality(Keys(ret)) >= 2

\* C2: on a non-empty daily series and n > 0, FilterDailyLastNDays returns
\* min(n, |S|) entries: all of S when n >= |S|, otherwise the n entries with
\* the greatest keys, each with its original data point.
C2_FilterDailyLastNDaysLatest ==
    (op = "FilterDailyLastNDays" /\ NonEmpty(daily) /\ args.days > 0) =>
        /\ ~ret.isNil
        /\ Keys(ret) \subseteq Keys(daily)
        /\ Cardinality(Keys(ret)) = Min(args.days, Cardinality(Keys(daily)))
        /\ args.days >= Cardinality(Keys(daily)) => Keys(ret) = Keys(daily)
        /\ \A k \in Keys(ret) : \A j \in Keys(daily) \ Keys(ret) : LexLess(j, k)
        /\ \A k \in Keys(ret) : ret.TimeSeries[k] = daily.TimeSeries[k]

\* two of three days are asked for
C2_Witness ==
    /\ op = "FilterDailyLastNDays"
    /\ Cardinality(Keys(daily)) = 3
    /\ args.days = 2
    /\ Cardinality(Keys(ret)) = 2

\* C3: on a non-empty daily series GetDailyRangeSummary succeeds with
\* StartDate the smallest key, EndDate the largest key, TradingDays = |S|,
\* PeriodOpen the open at the smallest key, PeriodClose the close at the largest.
C3_SummarySpanOpenClose ==
    (op = "GetDailyRangeSummary" /\ NonEmpty(daily)) =>
        /\ Summarized("GetDailyRangeSummary")
        /\ ret.summary.StartDate = MinKey(Keys(daily))
        /\ ret.summary.EndDate = MaxKey(Keys(daily))
        /\ ret.summary.TradingDays = Cardinality(Keys(daily))
        /\ ret.summary.PeriodOpen = OpenOf(daily.TimeSeries[MinKey(Keys(daily))])
        /\ ret.summary.PeriodClose = CloseOf(daily.TimeSeries[MaxKey(Keys(daily))])

\* three days whose first and last differ in both open and close
C3_Witness ==
    /\ Summarized("GetDailyRangeSummary")
    /\ ret.summary.TradingDays = 3
    /\ ret.summary.StartDate # ret.summary.EndDate
    /\ OpenOf(daily.TimeSeries[ret.summary.EndDate]) # ret.summary.PeriodOpen
    /\ CloseOf(daily.TimeSeries[ret.summary.StartDate]) # ret.summary.PeriodClose

\* C4: PeriodHigh is the maximum of the days' highs and PeriodLow the minimum
\* of the days' lows.
C4_PeriodHighLowExtrema ==
    (op = "GetDailyRangeSummary" /\ NonEmpty(daily)) =>
        /\ Summarized("GetDailyRangeSummary")
        /\ \A k \in Keys(daily) : FLeq(HighOf(daily.TimeSeries[k]), ret.summary.PeriodHigh)
        /\ \E k \in Keys(daily) : HighOf(daily.TimeSeries[k]) = ret.summary.PeriodHigh
        /\ \A k \in Keys(daily) : FLeq(ret.summary.PeriodLow, LowOf(daily.TimeSeries[k]))
        /\ \E k \in Keys(daily) : LowOf(daily.TimeSeries[k]) = ret.summary.PeriodLow

\* three days; neither extremum is on the first day, and they fall on different days
C4_Witness ==
    /\ Summarized("GetDailyRangeSummary")
    /\ ret.summary.TradingDays = 3
    /\ ret.summary.HighDate # ret.summary.StartDate
    /\ ret.summary.LowDate # ret.summary.StartDate
    /\ ret.summary.HighDate # ret.summary.LowDate

\* C5: HighDate is the earliest date whose high equals PeriodHigh and LowDate
\* the earliest date whose low equals PeriodLow; both are keys of S.
C5_ExtremaDatesFirstOccurrence ==
    (op = "GetDailyRangeSummary" /\ NonEmpty(daily)) =>
        /\ Summarized("GetDailyRangeSummary")
        /\ ret.summary.HighDate \in Keys(daily)
        /\ ret.summary.LowDate \in Keys(daily)
        /\ HighOf(daily.TimeSeries[ret.summary.HighDate]) = ret.summary.PeriodHigh
        /\ LowOf(daily.TimeSeries[ret.summary.LowDate]) = ret.summary.PeriodLow
        /\ \A k \in Keys(daily) :
              HighOf(daily.TimeSeries[k]) = ret.summary.PeriodHigh
                  => LexLeq(ret.summary.HighDate, k)
        /\ \A k \in Keys(daily) :
              LowOf(daily.TimeSeries[k]) = ret.summary.PeriodLow
                  => LexLeq(ret.summary.LowDate, k)

\* two days tie for the high and two days tie for the low
C5_Witness ==
    /\ Summarized("GetDailyRangeSummary")
    /\ \E k \in Keys(daily) \ {ret.summary.HighDate} :
          HighOf(daily.TimeSeries[k]) = ret.summary.PeriodHigh
    /\ \E k \in Keys(daily) \ {ret.summary.LowDate} :
          LowOf(daily.TimeSeries[k]) = ret.summary.PeriodLow

\* C6: TotalVolume is the sum of the days' volumes and AvgVolume is
\* TotalVolume divided by TradingDays, truncated toward zero; the divisor
\* TradingDays is never zero.
C6_TotalAndAverageVolume ==
    (op = "GetDailyRangeSummary" /\ NonEmpty(daily)) =>
        /\ Summarized("GetDailyRangeSummary")
        /\ ret.summary.TradingDays > 0
        /\ ret.summary.TotalVolume = SumVolumes(daily.TimeSeries, Keys(daily))
        /\ LET rem == ret.summary.TotalVolume
                          - ret.summary.AvgVolume * ret.summary.TradingDays
           IN  /\ Abs(rem) < ret.summary.TradingDays
               /\ rem = 0 \/ Sign(rem) = Sign(ret.summary.TotalVolume)

\* a negative total that the day count does not divide
C6_Witness ==
    /\ Summarized("GetDailyRangeSummary")
    /\ ret.summary.TotalVolume < 0
    /\ ret.summary.TotalVolume # ret.summary.AvgVolume * ret.summary.TradingDays

\* C7: PriceChange = PeriodClose - PeriodOpen; PriceChangePct is
\* PriceChange / PeriodOpen * 100 when PeriodOpen is not 0 and exactly 0 when
\* it is 0; no division by zero takes place, so the percentage is finite.
C7_PriceChangeAndPct ==
    (op = "GetDailyRangeSummary" /\ NonEmpty(daily)) =>
        /\ Summarized("GetDailyRangeSummary")
        /\ LET s == ret.summary
           IN  /\ s.PriceChange.d > 0 /\ s.PeriodOpen.d > 0 /\ s.PeriodClose.d > 0
               /\ s.PriceChange.n * s.PeriodClose.d * s.PeriodOpen.d =
                     (s.PeriodClose.n * s.PeriodOpen.d - s.PeriodOpen.n * s.PeriodClose.d)
                         * s.PriceChange.d
               /\ IsFinite(s.PriceChangePct)
               /\ s.PeriodOpen.n = 0 => s.PriceChangePct = FZero
               /\ s.PeriodOpen.n # 0 =>
                     s.PriceChangePct.n * s.PeriodOpen.n * s.PriceChange.d =
                         100 * s.PriceChange.n * s.PeriodOpen.d * s.PriceChangePct.d

\* the period opens at 0 and closes elsewhere
C7_Witness ==
    /\ Summarized("GetDailyRangeSummary")
    /\ ret.summary.PeriodOpen = FZero
    /\ ret.summary.PriceChange # FZero

\* C8: on a nil response or one with no entries, both summaries return a nil
\* summary with the "no data" error and do not panic; a nil error is returned
\* only together with a non-nil summary.
C8_EmptyInputIsNoData ==
    /\ (op = "GetDailyRangeSummary" /\ ~NonEmpty(daily)) =>
           ret.isNil /\ ret.err = "no data" /\ ~ret.panic
    /\ (op = "GetIntradaySummary" /\ ~NonEmpty(intraday)) =>
           ret.isNil /\ ret.err = "no data" /\ ~ret.panic
    /\ (op \in {"GetDailyRangeSummary", "GetIntradaySummary"} /\ ~ret.panic /\ ret.err = NoErr)
           => ~ret.isNil

\* the intraday summary of a non-nil response whose series has no entries
C8_Witness ==
    /\ op = "GetIntradaySummary"
    /\ ~intraday.isNil
    /\ Keys(intraday) = {}
    /\ ret.err = "no data"

\* C9: the summary of S restricted to its own StartDate..EndDate span equals
\* the summary of S, field for field.
C9_ResummarizeOwnSpanSame ==
    op = "ResummarizeOwnSpan" => ret = args.first

\* the restriction of a three-day series was summarized again
C9_Witness ==
    /\ op = "ResummarizeOwnSpan"
    /\ Cardinality(Keys(daily)) = 3
    /\ ret.err = NoErr
    /\ ret.summary.TradingDays = 3

\* C10: on every non-empty intraday series GetIntradaySummary returns Open of
\* the smallest timestamp, Close of the largest, High the maximum high, Low the
\* minimum low, TotalVol the sum of volumes, DataPoints = |T| and Date the
\* first 10 characters of the smallest timestamp.
C10_IntradaySummaryFields ==
    (op = "GetIntradaySummary" /\ NonEmpty(intraday)) =>
        /\ Summarized("GetIntradaySummary")
        /\ LET T == intraday.TimeSeries
               lo == MinKey(Keys(intraday))
               hi == MaxKey(Keys(intraday))
               s == ret.summary
           IN  /\ s.Open = OpenOf(T[lo])
               /\ s.Close = CloseOf(T[hi])
               /\ \A k \in DOMAIN T : FLeq(HighOf(T[k]), s.High) /\ FLeq(s.Low, LowOf(T[k]))
               /\ \E k \in DOMAIN T : HighOf(T[k]) = s.High
               /\ \E k \in DOMAIN T : LowOf(T[k]) = s.Low
               /\ s.TotalVol = SumVolumes(T, DOMAIN T)
               /\ s.DataPoints = Cardinality(DOMAIN T)
               /\ Len(lo) >= DatePrefixLen
               /\ s.Date = SubSeq(lo, 1, DatePrefixLen)

\* the same fields, on the series whose smallest timestamp holds a date
IntradaySummaryFieldsOnDatedKeys ==
    (\A k \in Keys(intraday) : Len(k) >= DatePrefixLen) => C10_IntradaySummaryFields

\* C11: on a non-nil intraday series T and a date d, FilterIntradayByDate
\* returns exactly the entries of T whose key has at least 10 characters and
\* whose first 10 characters equal d, each with its original data point; a
\* shorter key is never included and the call still returns a response.
C11_FilterIntradayByDateExact ==
    (op = "FilterIntradayByDate" /\ ~intraday.isNil) =>
        /\ ~ret.isNil
        /\ Keys(ret) = {k \in Keys(intraday) :
                           Len(k) >= DateKeyLen /\ SubSeq(k, 1, DateKeyLen) = args.date}
        /\ \A k \in Keys(ret) : ret.TimeSeries[k] = intraday.TimeSeries[k]
        /\ \A k \in Keys(ret) : Len(k) >= DateKeyLen

\* one day is kept out of a series that also holds another day and a key
\* shorter than a date
C11_Witness ==
    /\ op = "FilterIntradayByDate"
    /\ args.date = Day0610
    /\ Keys(intraday) = {T0930, T1130, TShort}
    /\ Keys(ret) = {T0930}

\* the filters, and the response each one reads
Filters == {"FilterDailyByDateRange", "FilterDailyLastNDays", "FilterOwnSpan",
            "FilterIntradayByDate"}
InputOf(name) == IF name = "FilterIntradayByDate" THEN intraday ELSE daily

\* C12: no call changes the response it is given (key set, data points and
\* metadata stay as they were), and the series a filter returns is a map
\* other than the map of its input.
C12_InputsUnchanged ==
    [][/\ daily' = daily
       /\ intraday' = intraday
       /\ (op' \in Filters /\ ~ret'.isNil) =>
              /\ ~ret'.tsNil
              /\ ret'.tsRef # InputOf(op').tsRef]_vars

\* a filter has dropped entries from its result and the input still has them
C12_Witness ==
    /\ op \in Filters
    /\ ~ret.isNil
    /\ Keys(ret) # {}
    /\ Keys(InputOf(op)) \ Keys(ret) # {}
    /\ InputOf(op).tsRef = InputMap

\* C13: FilterDailyByDateRange and FilterIntradayByDate return nil for a nil
\* input; for a non-nil input, even with an empty or nil series, they return
\* a non-nil response with a non-nil map and the input's metadata, and that
\* map is empty when no key matches.
C13_FilterNilAndEmpty ==
    (op \in {"FilterDailyByDateRange", "FilterIntradayByDate"}) =>
        LET input == InputOf(op)
            matches ==
                IF op = "FilterIntradayByDate"
                THEN {k \in Keys(input) : Len(k) >= DateKeyLen /\ SubSeq(k, 1, DateKeyLen) = args.date}
                ELSE {k \in Keys(input) :
                         /\ args.startDate = <<>> \/ LexLeq(args.startDate, k)
                         /\ args.endDate = <<>> \/ LexLeq(k, args.endDate)}
        IN  /\ input.isNil => ret.isNil
            /\ ~input.isNil =>
                   /\ ~ret.isNil
                   /\ ~ret.tsNil
                   /\ ret.MetaData = input.MetaData
                   /\ matches = {} => ret.TimeSeries = EmptyMap

\* a range that matches none of the days of a series with a nil map, or of a
\* series with entries
C13_Witness ==
    /\ op = "FilterDailyByDateRange"
    /\ ~daily.isNil
    /\ daily.tsNil \/ Keys(daily) # {}
    /\ ~ret.isNil
    /\ ret.TimeSeries = EmptyMap
    /\ ret.MetaData = DailyMeta

\* C14: FilterDailyLastNDays returns nil exactly when the series is nil, the
\* day count is zero or negative, or the series has no entries; otherwise it
\* returns a non-nil response with a non-empty series.
C14_LastNDaysNilExactly ==
    (op = "FilterDailyLastNDays") =>
        /\ ret.isNil <=> (daily.isNil \/ args.days <= 0 \/ Keys(daily) = {})
        /\ ~ret.isNil => (~ret.tsNil /\ Keys(ret) # {})

\* a day count of zero on a series with entries
C14_Witness ==
    /\ op = "FilterDailyLastNDays"
    /\ args.days = 0
    /\ Keys(daily) # {}
    /\ ret.isNil

\* a call of the named methods has returned
Returned(methods) == op \in methods /\ call.stage = "done"

\* the member is a JSON string that is not empty
HasText(v) == v.type = "string" /\ v.s # ""

\* the kind of error the stated precedence gives a reply (NoErr: none)
Classified(reply) ==
    IF reply.transportErr THEN "request failed"
    ELSE IF reply.status # StatusOK THEN "unexpected status code"
    ELSE IF reply.body.json = "object" /\ HasText(reply.body.ErrorMessage) THEN "API error"
    ELSE IF reply.body.json = "object" /\ HasText(reply.body.Note) THEN "API rate limit"
    ELSE IF reply.body.json = "object" /\ HasText(reply.body.Information) THEN "API info"
    ELSE NoErr

\* C15: Client.doRequest classifies every reply in the fixed precedence
\* transport failure ("request failed"), status other than 200 ("unexpected
\* status code"), then on a 200 body that is JSON a non-empty "Error Message"
\* ("API error"), else a non-empty "Note" ("API rate limit"), else a non-empty
\* "Information" ("API info"); only otherwise is the body returned with a nil
\* error; a body never comes with an error, and the transport, provider and
\* rate-limit kinds differ.
C15_DoRequestPrecedence ==
    Returned(ClientMethods) =>
        LET r == ret.doRequest
        IN  /\ r.err = Classified(args.reply)
            /\ r.err = NoErr => (~r.bodyNil /\ r.body = args.reply.body)
            /\ r.err # NoErr => r.bodyNil
            /\ Cardinality({"request failed", "API error", "API rate limit"}) = 3

\* the same precedence, on the bodies whose envelope members are all strings
DoRequestPrecedenceOnStringMembers ==
    (/\ Returned(ClientMethods)
     /\ ~args.reply.transportErr
     /\ args.reply.body.json = "object"
     /\ \E f \in {args.reply.body.ErrorMessage, args.reply.body.Note,
                   args.reply.body.Information} : TypeError(f))
        \/ C15_DoRequestPrecedence

\* C16: Client.doRequest, FinancialDatasetsClient.doRequest and AIClient.chat
\* each return a failure whenever the response has a non-success status,
\* whatever its body.
C16_NonSuccessStatusFails ==
    (/\ Returned(SingleEndpoint)
     /\ ~args.reply.transportErr
     /\ args.reply.status \notin 200..299) => ret.err # NoErr

\* the same, for the two doRequest functions
DoRequestNonSuccessStatusFails ==
    Returned(ClientMethods \cup FDMethods) => C16_NonSuccessStatusFails

\* C17: a single-endpoint method sends exactly one request per call, and
\* when that request fails it returns the failure without sending another.
C17_NoRetries ==
    (op \in SingleEndpoint) =>
        /\ call.sent <= 1
        /\ call.stage = "request" => call.sent = 0
        /\ call.stage = "done" =>
               /\ call.sent = 1
               /\ op # "chat" /\ ret.doRequest.err # NoErr =>
                      ret.isNil /\ ret.err = ret.doRequest.err
               /\ op = "chat" /\ args.reply.transportErr => ret.err = "request failed"

\* a getter returned after its one request met a transport failure
C17_Witness ==
    /\ Returned(ClientMethods \cup FDMethods)
    /\ args.reply.transportErr
    /\ call.sent = 1
    /\ ret.err = "request failed"

\* C18: when a transport, provider, decode or no-data failure occurs inside
\* an operation that returns an error value, GenerateFullAnalysis included,
\* the operation returns a non-nil error.
C18_NoErrorSwallowed ==
    (call.stage = "done" /\ call.failed) => ret.err # NoErr

\* the same, for the single-endpoint methods
SingleEndpointReportsFailure ==
    Returned(SingleEndpoint) => C18_NoErrorSwallowed

\* the image names drawn so far, each with the builder and the position of
\* the call that drew it
Drawn == {c \in Builders \X (1..MaxImages) : c[2] <= Len(builders[c[1]].names)}
NameOf(c) == builders[c[1]].names[c[2]]
Completed ==
    ImagesOf(builders, Builders) - Cardinality({b \in Builders : builders[b].pc = "draw"})

\* no two calls got the same counter value or the same image name
DistinctImages ==
    \A c \in Drawn, e \in Drawn :
        c # e => (NameOf(c)[3] # NameOf(e)[3] /\ NameOf(c) # NameOf(e))

\* the counter has grown by one for every call that has passed its atomic
\* add: by k once k calls have completed and none is in progress
GrownByCalls ==
    /\ imageCounter = ImagesOf(builders, Builders)
    /\ (\A b \in Builders : builders[b].pc = "idle") => imageCounter = Completed

\* C19: under every interleaving of addChartImage calls of concurrent report
\* builders, each call gets a counter value (hence an image name) no other
\* call gets, the counter never decreases, and after k completed calls it has
\* grown by exactly k.
C19_ImageCounter ==
    [][/\ DistinctImages'
       /\ imageCounter' >= imageCounter
       /\ GrownByCalls']_vars

\* two builders are both between their atomic add and the drawing, after one
\* of them has completed a call
C19_Witness ==
    /\ \A b \in Builders : builders[b].pc = "draw"
    /\ \E b \in Builders : Len(builders[b].names) >= 2
    /\ imageCounter >= 3

\* the input of a single-series generator is nil or has no records
NoRecords(name, data) ==
    \/ data.isNil
    \/ name \in {"GenerateDailyPriceChart", "GenerateCandlestickChart"} /\ Keys(data) = {}
    \/ name = "GenerateEarningsChart" /\ Len(data.AnnualEarnings) = 0
    \/ name = "GenerateCashFlowChart" /\ Len(data.AnnualReports) = 0

\* the dataset has at least one entry whose key is a date
Contributes(data) == ~data.isNil /\ \E k \in Keys(data) : ParsesAsDate(k)

NoDataErrors == {"no data to chart", "no earnings data to chart", "no cash flow data to chart", "no valid data to chart"}

\* C20: each chart generator returns a no-data error and writes nothing to
\* its output when its input is nil or has no records; the comparison chart
\* does so when the dataset map is empty or no dataset contributes a series.
C20_NoChartWithoutData ==
    /\ (/\ op \in {"GenerateDailyPriceChart", "GenerateCandlestickChart",
                    "GenerateEarningsChart", "GenerateCashFlowChart"}
        /\ NoRecords(op, args.data)) =>
            (ret.err \in NoDataErrors /\ ~ret.written)
    /\ (/\ op = "GenerateComparisonChart"
        /\ \A sym \in DOMAIN args.datasets : ~Contributes(args.datasets[sym])) =>
            (ret.err \in NoDataErrors /\ ~ret.written)

\* the comparison chart was asked for two symbols, one with a nil dataset and
\* one whose only key is not a date, and returned without rendering
C20_Witness ==
    /\ op = "GenerateComparisonChart"
    /\ DOMAIN args.datasets = ChartSymbols
    /\ \E sym \in ChartSymbols : args.datasets[sym].isNil
    /\ \E sym \in ChartSymbols : Keys(args.datasets[sym]) = {Month01}
    /\ ret = NotRendered("no valid data to chart")

\* C21: GetSingleDayData fetches, filters, then checks for emptiness: a failed
\* fetch is returned with a nil series; a fetch without a timestamp of that
\* date (or without a series) gives a nil series and "no data available";
\* otherwise the error is nil and the series is the non-empty set of entries
\* whose key starts with the date.  An empty series never comes with a nil
\* error.
C21_SingleDayFetchFilterCheck ==
    Returned({"GetSingleDayData"}) =>
        LET fetched == GetTimeSeriesIntraday(args.reply, args.wire)
            matches == {k \in Keys(args.wire) :
                           Len(k) >= DateKeyLen /\ SubSeq(k, 1, DateKeyLen) = args.date}
        IN  /\ fetched.err # NoErr => (ret.data.isNil /\ ret.err = fetched.err)
            /\ fetched.err = NoErr /\ matches = {} =>
                   (ret.data.isNil /\ ret.err = "no data available")
            /\ fetched.err = NoErr /\ matches # {} =>
                   /\ ret.err = NoErr
                   /\ ~ret.data.isNil
                   /\ Keys(ret.data) = matches
                   /\ \A k \in matches : ret.data.TimeSeries[k] = args.wire.TimeSeries[k]
            /\ ret.err = NoErr => Keys(ret.data) # {}

\* a fetch that succeeded with a body without a series
C21_Witness ==
    /\ Returned({"GetSingleDayData"})
    /\ ~args.reply.transportErr /\ args.reply.status = StatusOK
    /\ args.reply.body.decodes
    /\ args.wire.tsNil
    /\ ret.data.isNil
    /\ ret.err = "no data available"

\* C22: GetSortedDates returns nil for a nil response and otherwise every key
\* of the series exactly once and nothing else, in strictly ascending lexical
\* order (the empty sequence for an empty series), whatever order the keys
\* were enumerated in before the exchange sort.
C22_SortedDatesPermutation ==
    (op = "GetSortedDates") =>
        /\ ret.nilSlice <=> daily.isNil
        /\ Len(ret.dates) = Cardinality(Keys(daily))
        /\ {ret.dates[i] : i \in 1..Len(ret.dates)} = Keys(daily)
        /\ \A i \in 1..Len(ret.dates), j \in 1..Len(ret.dates) :
               i < j => LexLess(ret.dates[i], ret.dates[j])

\* the dates of a series of MaxLen days, the first of a later month than the
\* last of the others
C22_Witness ==
    /\ op = "GetSortedDates"
    /\ Cardinality(Keys(daily)) = MaxLen
    /\ Len(ret.dates) = MaxLen
    /\ ret.dates[1] = D0102
    /\ ret.dates[MaxLen] = D0201

\* C23: GetOldestDate returns the smallest key and GetMostRecentDate the
\* greatest key, each the empty string when the series is nil or has no
\* entries; on a non-empty series the oldest date is at most the most recent
\* one, and they are the StartDate and EndDate of GetDailyRangeSummary.
C23_OldestAndMostRecent ==
    /\ (op = "GetOldestDate") =>
           /\ ret = IF NonEmpty(daily) THEN MinKey(Keys(daily)) ELSE <<>>
           /\ NonEmpty(daily) =>
                  \A order \in Orders(Keys(daily)) :
                      /\ LexLeq(ret, GetMostRecentDate(daily, order))
                      /\ GetDailyRangeSummary(daily, order).summary.StartDate = ret
    /\ (op = "GetMostRecentDate") =>
           /\ ret = IF NonEmpty(daily) THEN MaxKey(Keys(daily)) ELSE <<>>
           /\ NonEmpty(daily) =>
                  \A order \in Orders(Keys(daily)) :
                      /\ LexLeq(GetOldestDate(daily, order), ret)
                      /\ GetDailyRangeSummary(daily, order).summary.EndDate = ret

\* the most recent date of a series of several days, not its oldest
C23_Witness ==
    /\ op = "GetMostRecentDate"
    /\ Cardinality(Keys(daily)) >= 2
    /\ ret = MaxKey(Keys(daily))
    /\ ret # MinKey(Keys(daily))

\* the text "0" in place of a price that does not parse
ZeroedPrice(text) == IF parseFloat(text).err THEN <<"0">> ELSE text

\* the text "0" in place of a volume that does not parse
ZeroedVolume(text) == IF parseInt(text).err THEN <<"0">> ELSE text

\* the series with "0" written in place of every field that does not parse
Zeroed(data) ==
    [data EXCEPT !.TimeSeries =
        [k \in DOMAIN data.TimeSeries |->
            LET p == data.TimeSeries[k]
            IN  DataPoint(ZeroedPrice(p.Open), ZeroedPrice(p.High), ZeroedPrice(p.Low),
                          ZeroedPrice(p.Close), ZeroedVolume(p.Volume))]]

\* some record of the series has a field that does not parse
HasUnparseable(data) == data # Zeroed(data)

\* C24: in GetDailyRangeSummary and GetIntradaySummary a price or volume text
\* that fails to parse counts as 0 and is not reported: the result is the one
\* the same series gives with "0" written in place of the text, a non-empty
\* series yields a summary with a nil error that counts every record, and a
\* low that does not parse makes the period low at most 0 (a high, at least
\* 0).  For GetIntradaySummary this is stated of the calls that get past the
\* slicing of the first timestamp.
C24_ParseFailureIsZero ==
    /\ (op = "GetDailyRangeSummary") =>
           /\ \A order \in Orders(Keys(daily)) :
                  ret = GetDailyRangeSummary(Zeroed(daily), order)
           /\ NonEmpty(daily) =>
                  /\ Summarized("GetDailyRangeSummary")
                  /\ ret.summary.TradingDays = Cardinality(Keys(daily))
                  /\ (\E k \in Keys(daily) : parseFloat(daily.TimeSeries[k].Low).err)
                         => FLeq(ret.summary.PeriodLow, FZero)
                  /\ (\E k \in Keys(daily) : parseFloat(daily.TimeSeries[k].High).err)
                         => FLeq(FZero, ret.summary.PeriodHigh)
    /\ (op = "GetIntradaySummary") =>
           /\ \A order \in Orders(Keys(intraday)) :
                  ret = GetIntradaySummary(Zeroed(intraday), order)
           /\ (NonEmpty(intraday) /\ ~ret.panic) =>
                  /\ Summarized("GetIntradaySummary")
                  /\ ret.summary.DataPoints = Cardinality(Keys(intraday))
                  /\ (\E k \in Keys(intraday) : parseFloat(intraday.TimeSeries[k].Low).err)
                         => FLeq(ret.summary.Low, FZero)
                  /\ (\E k \in Keys(intraday) : parseFloat(intraday.TimeSeries[k].High).err)
                         => FLeq(FZero, ret.summary.High)

\* a summary of several days, one of them with a low and a volume that do not
\* parse, whose period low is 0
C24_Witness ==
    /\ Summarized("GetDailyRangeSummary")
    /\ Cardinality(Keys(daily)) >= 2
    /\ HasUnparseable(daily)
    /\ \E k \in Keys(daily) : ~parseFloat(daily.TimeSeries[k].Low).err
    /\ ret.summary.TradingDays = Cardinality(Keys(daily))
    /\ ret.summary.PeriodLow = FZero

\* the error the precedence gives a reply to chat, parse errors being those
\* of the bodies in unparsed
ChatClassified(reply, unparsed) ==
    IF reply.transportErr THEN "request failed"
    ELSE IF reply.body.json \in unparsed THEN "parse error"
    ELSE IF reply.body.hasError THEN "API error"
    ELSE IF reply.body.choices = 0 THEN "no response from AI"
    ELSE NoErr

\* chat returned what the precedence gives: the error, and the content of the
\* first choice exactly when there is no error
ChatFollows(unparsed) ==
    Returned({"chat"}) =>
        /\ ret.err = ChatClassified(args.reply, unparsed)
        /\ ret.err = NoErr => ret.content = args.reply.body.content
        /\ ret.err # NoErr => ret.content = ""

\* C25, as stated: after its one POST chat returns "request failed" on a
\* transport failure, else "parse error" on a body that is not valid JSON,
\* else "API error" on a present error object even with choices, else "no
\* response from AI" on an empty choices list, else the content of the first
\* choice with a nil error; content never comes with an error.
C25_ChatPrecedenceAsStated == ChatFollows({"invalid"})

\* C25, amended: the "parse error" is returned for every body that does not
\* unmarshal into the response object, valid JSON of another shape (such as
\* an array) included; the rest of the precedence is as stated.
C25_ChatPrecedence == ChatFollows({"invalid", "array"})

\* chat returned a parse error for a body that is a JSON array
C25_Witness ==
    /\ Returned({"chat"})
    /\ ~args.reply.transportErr
    /\ args.reply.body.json = "array"
    /\ ret.err = "parse error"
    /\ ret.content = ""

\* the number of sections GenerateFullAnalysis has generated so far
Generated == IF call.stage = "done" THEN Len(Sections) ELSE call.section - 1

\* C26: GenerateFullAnalysis generates its sections one after another in the
\* order Executive, PriceAnalysis, Fundamentals, Risks, Outlook: the sections
\* that have a text are always a prefix of that order, and the requests sent
\* are one per generated section, none being in flight when the next starts;
\* at most 5 requests are sent, exactly 4 when the daily series is nil or
\* empty (PriceAnalysis then fails without a request) and 5 otherwise; every
\* section is generated whatever failed before it, a failed section holding
\* its fixed "Unable to ..." text.
C26_SectionsInOrder ==
    (op = "GenerateFullAnalysis") =>
        LET skipped == IF Generated >= 2 /\ NoPriceData(daily) THEN 1 ELSE 0
        IN  /\ Sections = <<"Executive", "PriceAnalysis", "Fundamentals", "Risks", "Outlook">>
            /\ \A i \in 1..5 :
                   /\ i <= Generated =>
                          call.summary[Sections[i]] \in {"analysis", Placeholder[Sections[i]]}
                   /\ i > Generated => call.summary[Sections[i]] = ""
            /\ call.sent = Generated - skipped
            /\ call.sent <= 5
            /\ call.failed <=>
                   \E i \in 1..Generated : call.summary[Sections[i]] = Placeholder[Sections[i]]
            /\ (Generated >= 2 /\ NoPriceData(daily)) =>
                   call.summary.PriceAnalysis = "Unable to analyze price trends."
            /\ call.stage = "done" =>
                   /\ call.sent = IF NoPriceData(daily) THEN 4 ELSE 5
                   /\ ret.summary = call.summary

\* an analysis without price data that has returned after 4 requests, its
\* first section failed and its last one generated
C26_Witness ==
    /\ Returned({"GenerateFullAnalysis"})
    /\ NoPriceData(daily)
    /\ call.sent = 4
    /\ ret.summary.Executive = "Unable to generate executive summary."
    /\ ret.summary.PriceAnalysis = "Unable to analyze price trends."
    /\ ret.summary.Outlook = "analysis"

\* the string starts with the prefix
StartsWith(text, prefix) ==
    /\ Len(text) >= Len(prefix)
    /\ SubSeq(text, 1, Len(prefix)) = prefix

\* C27: for every intraday series T, with keys of any length, and every date
\* d (ten characters), GetIntradaySummary of FilterIntradayByDate(T, d) never
\* slices out of range; it returns the "no data" error when no key of T
\* starts with d, and otherwise a summary whose Date is d and whose DataPoints
\* is the number of keys of T that start with d.
C27_FilterThenSummarizeSafe ==
    (op = "SummarizeFilteredDay" /\ Len(args.date) = DateKeyLen) =>
        LET matching == {k \in Keys(intraday) : StartsWith(k, args.date)}
        IN  /\ ~ret.panic
            /\ matching = {} => (ret.isNil /\ ret.err = "no data")
            /\ matching # {} =>
                   /\ ~ret.isNil
                   /\ ret.err = NoErr
                   /\ ret.summary.Date = args.date
                   /\ ret.summary.DataPoints = Cardinality(matching)

\* the summary of one day of a series that also holds another day and a key
\* shorter than a date
C27_Witness ==
    /\ op = "SummarizeFilteredDay"
    /\ args.date = Day0610
    /\ Keys(intraday) = {T0930, T1130, TShort}
    /\ ~ret.panic
    /\ ret.err = NoErr
    /\ ret.summary.Date = Day0610
    /\ ret.summary.DataPoints = 1

\* the n-th greatest of the keys: n - 1 keys are greater
NthGreatest(S, n) == CHOOSE k \in S : Cardinality({j \in S : LexLess(k, j)}) = n - 1

\* C28: for every non-empty daily series S and every n with 0 < n <= |S|,
\* FilterDailyLastNDays(S, n) and FilterDailyByDateRange(S, d, ""), d being
\* the n-th greatest key of S, have the same keys, the same data point under
\* each key and the same metadata.
C28_DailyFiltersAgree ==
    (/\ op = "RangeFromKey"
     /\ args.days <= Cardinality(Keys(daily))
     /\ args.startDate = NthGreatest(Keys(daily), args.days)) =>
        /\ ~ret.isNil
        /\ Keys(args.lastN) = Keys(ret)
        /\ \A k \in Keys(ret) : args.lastN.TimeSeries[k] = ret.TimeSeries[k]
        /\ args.lastN.MetaData = ret.MetaData

\* the last 2 days of a series of MaxLen days, and the range from its second
\* greatest key: the same 2 entries
C28_Witness ==
    /\ op = "RangeFromKey"
    /\ Cardinality(Keys(daily)) = MaxLen
    /\ args.days = 2
    /\ args.startDate = NthGreatest(Keys(daily), 2)
    /\ Cardinality(Keys(ret)) = 2
    /\ Keys(args.lastN) = Keys(ret)

\* C29: GetSortedDates, FilterDailyLastNDays, GetDailyRangeSummary and
\* GetIntradaySummary return, for every order in which the map of the input
\* series may be enumerated, the result the call returned: the result depends
\* on the keys and values of the series alone, HighDate and LowDate of tied
\* days included.
C29_EnumerationOrderIrrelevant ==
    /\ (op = "GetSortedDates") =>
           \A order \in Orders(Keys(daily)) : ret = GetSortedDates(daily, order)
    /\ (op = "FilterDailyLastNDays") =>
           \A order \in Orders(Keys(daily)) :
               ret = FilterDailyLastNDays(daily, args.days, order)
    /\ (op = "GetDailyRangeSummary") =>
           \A order \in Orders(Keys(daily)) : ret = GetDailyRangeSummary(daily, order)
    /\ (op = "GetIntradaySummary") =>
           \A order \in Orders(Keys(intraday)) : ret = GetIntradaySummary(intraday, order)

\* a summary of a series in which two days tie for the highest high: the
\* earlier of the two is the HighDate
C29_Witness ==
    /\ Summarized("GetDailyRangeSummary")
    /\ Cardinality(Orders(Keys(daily))) >= 2
    /\ \E j \in Keys(daily), k \in Keys(daily) :
           /\ LexLess(j, k)
           /\ HighOf(daily.TimeSeries[j]) = ret.summary.PeriodHigh
           /\ HighOf(daily.TimeSeries[k]) = ret.summary.PeriodHigh
           /\ ret.summary.HighDate = j

\* every field of the record parses, low <= open <= high, low <= close <=
\* high, and the volume is not negative
WellFormed(p) ==
    /\ ~parseFloat(p.Open).err /\ ~parseFloat(p.High).err /\ ~parseFloat(p.Low).err
    /\ ~parseFloat(p.Close).err /\ ~parseInt(p.Volume).err
    /\ FLeq(LowOf(p), OpenOf(p)) /\ FLeq(OpenOf(p), HighOf(p))
    /\ FLeq(LowOf(p), CloseOf(p)) /\ FLeq(CloseOf(p), HighOf(p))
    /\ VolumeOf(p) >= 0

\* C30: when every record of a non-empty daily series is well formed, the
\* summary of GetDailyRangeSummary has PeriodLow <= PeriodOpen <= PeriodHigh,
\* PeriodLow <= PeriodClose <= PeriodHigh, StartDate <= LowDate <= EndDate,
\* StartDate <= HighDate <= EndDate, and an AvgVolume that is at least the
\* smallest and at most the largest daily volume.
C30_WellFormedSummary ==
    (/\ op = "GetDailyRangeSummary"
     /\ NonEmpty(daily)
     /\ \A k \in Keys(daily) : WellFormed(daily.TimeSeries[k])) =>
        /\ Summarized("GetDailyRangeSummary")
        /\ LET s == ret.summary
           IN  /\ FLeq(s.PeriodLow, s.PeriodOpen) /\ FLeq(s.PeriodOpen, s.PeriodHigh)
               /\ FLeq(s.PeriodLow, s.PeriodClose) /\ FLeq(s.PeriodClose, s.PeriodHigh)
               /\ LexLeq(s.StartDate, s.LowDate) /\ LexLeq(s.LowDate, s.EndDate)
               /\ LexLeq(s.StartDate, s.HighDate) /\ LexLeq(s.HighDate, s.EndDate)
               /\ \E k \in Keys(daily) : VolumeOf(daily.TimeSeries[k]) <= s.AvgVolume
               /\ \E k \in Keys(daily) : s.AvgVolume <= VolumeOf(daily.TimeSeries[k])

\* the summary of MaxLen well-formed days with different volumes, the
\* average strictly between the smallest and the largest, the low and the
\* high on different days
C30_Witness ==
    /\ Summarized("GetDailyRangeSummary")
    /\ Cardinality(Keys(daily)) = MaxLen
    /\ \A k \in Keys(daily) : WellFormed(daily.TimeSeries[k])
    /\ \E k \in Keys(daily) : VolumeOf(daily.TimeSeries[k]) < ret.summary.AvgVolume
    /\ \E k \in Keys(daily) : ret.summary.AvgVolume < VolumeOf(daily.TimeSeries[k])
    /\ ret.summary.LowDate # ret.summary.HighDate

====
